---- MODULE Spec2Model ----
(***************************************************************************)
(* Authorization model and access-predicate compilation of the psytools    *)
(* express server: the User class and the two authentication middlewares   *)
(* (middleware/auth.js), the list/read handlers of the modular router      *)
(* (routes/api/*.js) and of the single-file router (routes/api.js), and    *)
(* the store they send their parameterized statements to.                  *)
(*                                                                         *)
(* One behaviour is one HTTP request: Init draws the request (its token    *)
(* or its x-user-* headers), the middleware runs, then one handler.        *)
(***************************************************************************)
EXTENDS Integers, Sequences, FiniteSets, TLC

\* ---------------------------------------------------------------- bounds
\* Longest studyAccess list carried by a request.
MaxGrants == 2

\* ------------------------------------------------------ values explored
StudyIds == {"A", "B"}
\* Sample ids as the token carries them (numbers); the store compares their text.
SampleIdValues == {1, 2}
SampleArrays == {<<>>, <<1>>, <<2>>, <<1, 2>>}
\* Names every JavaScript object inherits from Object.prototype (one is explored).
ObjectPrototypeKeys == {"constructor"}
\* Role strings a grant may carry: the three roles, one unknown role, and one
\* unknown role that is the name of an inherited property.
TokenRoles == {"STUDY_ADMIN", "SAMPLE_ADMIN", "VIEWER", "AUDITOR"} \cup ObjectPrototypeKeys

\* access.sampleIds: an array, or absent (undefined).
NoSampleIds == [isArray |-> FALSE, items |-> <<>>]
SampleIdsArray(a) == [isArray |-> TRUE, items |-> a]

Grants ==
  {[studyId |-> s, role |-> r, sampleIds |-> NoSampleIds] : s \in StudyIds, r \in TokenRoles}
  \cup {[studyId |-> s, role |-> "SAMPLE_ADMIN", sampleIds |-> SampleIdsArray(a)] :
          s \in StudyIds, a \in SampleArrays}

GrantLists == UNION {[1..n -> Grants] : n \in 0..MaxGrants}

\* ------------------------------------------------ constants.js / auth.js
ROLES == [STUDY_ADMIN |-> 3, SAMPLE_ADMIN |-> 2, VIEWER |-> 1]

ROLE_PERMISSIONS ==
  [STUDY_ADMIN |-> <<"READ_USERS", "READ_LOGS", "READ_TASKS", "READ_DATASETS",
                     "WRITE_USERS", "WRITE_TASKS", "ADMIN">>,
   SAMPLE_ADMIN |-> <<"READ_USERS", "READ_LOGS", "READ_TASKS", "READ_DATASETS",
                      "WRITE_USERS">>,
   VIEWER |-> <<"READ_DATASETS">>]

\* A property read obj[key] on an object literal: the own property, else the
\* property inherited from Object.prototype (a function), else undefined.
JsNumber(n) == [t |-> "number", n |-> n]
JsInherited == [t |-> "function", n |-> 0]
JsUndefined == [t |-> "undefined", n |-> 0]
Truthy(v) == v.t = "function" \/ (v.t = "number" /\ v.n # 0)

\* ROLES[role]
RolesGet(role) ==
  IF role \in DOMAIN ROLES THEN JsNumber(ROLES[role])
  ELSE IF role \in ObjectPrototypeKeys THEN JsInherited
  ELSE JsUndefined

\* a >= b on two property reads: false unless both are numbers (NaN compares false)
JsGte(a, b) == a.t = "number" /\ b.t = "number" /\ a.n >= b.n

\* ROLES[access.role] === ROLES.STUDY_ADMIN
IsStudyAdmin(access) == RolesGet(access.role) = JsNumber(ROLES.STUDY_ADMIN)

\* ---- User.permissions (auth.js 45-55)
\* `ROLE_PERMISSIONS[access.role] || []` followed by `.forEach`: an own property
\* is the role's array, undefined falls back to [], and an inherited property is
\* a function, which is truthy and has no forEach: the getter throws TypeError.
RolePermissionsThrows(role) ==
  role \notin DOMAIN ROLE_PERMISSIONS /\ role \in ObjectPrototypeKeys

RolePermissions(role) ==
  IF role \in DOMAIN ROLE_PERMISSIONS THEN ROLE_PERMISSIONS[role] ELSE <<>>

\* permissionSet.add(perm): a Set keeps insertion order and ignores a repeat.
SetAdd(arr, x) ==
  IF \E i \in 1..Len(arr) : arr[i] = x THEN arr ELSE Append(arr, x)

RECURSIVE AddEach(_, _)
AddEach(arr, perms) ==
  IF perms = <<>> THEN arr ELSE AddEach(SetAdd(arr, Head(perms)), Tail(perms))

RECURSIVE PermissionsFrom(_, _)
PermissionsFrom(permissionSet, studyAccess) ==
  IF studyAccess = <<>> THEN permissionSet
  ELSE PermissionsFrom(AddEach(permissionSet, RolePermissions(Head(studyAccess).role)),
                       Tail(studyAccess))

\* get permissions(): Array.from(permissionSet); defined when it does not throw.
PermissionsThrows(studyAccess) ==
  \E i \in 1..Len(studyAccess) : RolePermissionsThrows(studyAccess[i].role)

Permissions(studyAccess) == PermissionsFrom(<<>>, studyAccess)

\* permissions.includes(permission)
Includes(arr, x) == \E i \in 1..Len(arr) : arr[i] = x

\* User.hasPermission
HasPermission(studyAccess, permission) == Includes(Permissions(studyAccess), permission)

\* req.user.getAccessibleStudies(minRole = "VIEWER") (auth.js 189-193)
RECURSIVE GetAccessibleStudies(_, _)
GetAccessibleStudies(studyAccess, minRole) ==
  IF studyAccess = <<>> THEN <<>>
  ELSE LET access == Head(studyAccess)
           rest == GetAccessibleStudies(Tail(studyAccess), minRole)
       IN IF JsGte(RolesGet(access.role), RolesGet(minRole))
          THEN <<access.studyId>> \o rest ELSE rest

\* ---- User.hasStudyAccess / User.hasSampleAccess (auth.js 68-111)
\* this.studyAccess.find((a) => a.studyId === studyId): the position of the first
\* grant naming the study, 0 for undefined.
FindAccess(studyAccess, studyId) ==
  IF \E i \in 1..Len(studyAccess) : studyAccess[i].studyId = studyId
  THEN CHOOSE i \in 1..Len(studyAccess) :
         /\ studyAccess[i].studyId = studyId
         /\ \A j \in 1..(i - 1) : studyAccess[j].studyId # studyId
  ELSE 0

\* access && ROLES[access.role] >= ROLES[minRole], as a condition
HasStudyAccess(studyAccess, studyId, minRole) ==
  LET i == FindAccess(studyAccess, studyId)
  IN i # 0 /\ JsGte(RolesGet(studyAccess[i].role), RolesGet(minRole))

\* sampleIds.includes(sampleId)
SampleIdsInclude(sampleIds, sampleId) ==
  sampleIds.isArray /\ \E j \in 1..Len(sampleIds.items) : sampleIds.items[j] = sampleId

\* hasSampleAccess that lets a SAMPLE_ADMIN reach every sample of the study.
HasSampleAccessAnySample(studyAccess, studyId, sampleId) ==
  LET i == FindAccess(studyAccess, studyId)
  IN i # 0 /\ studyAccess[i].role \in {"STUDY_ADMIN", "SAMPLE_ADMIN"}

HasSampleAccess(studyAccess, studyId, sampleId) ==
  LET i == FindAccess(studyAccess, studyId)
  IN IF i = 0 THEN FALSE
     ELSE IF studyAccess[i].role = "STUDY_ADMIN" THEN TRUE
     ELSE IF studyAccess[i].role = "SAMPLE_ADMIN"
          THEN SampleIdsInclude(studyAccess[i].sampleIds, sampleId)
     ELSE FALSE

\* ------------------------------------------------------------ the store
\* Rows of fw_psy_user with their fw_psy_sample_user memberships. The joins to
\* fw_psy_user_task and fw_psy_user_task_log keep these columns, so the task and
\* task-log rows of a user are identified with the user row (one task, one log).
Users ==
  {[id |-> 1, study_id |-> "A", samples |-> {}],
   [id |-> 2, study_id |-> "A", samples |-> {1}],
   [id |-> 3, study_id |-> "A", samples |-> {2}],
   [id |-> 4, study_id |-> "B", samples |-> {}],
   [id |-> 5, study_id |-> "B", samples |-> {1}],
   [id |-> 6, study_id |-> "B", samples |-> {2}],
   [id |-> 7, study_id |-> "C", samples |-> {}]}

\* Rows of fw_psy_dataset_file; sample_id NULL is written Null.
Null == 0
DatasetFiles ==
  {[id |-> 1, study_id |-> "A", sample_id |-> Null],
   [id |-> 2, study_id |-> "A", sample_id |-> 1],
   [id |-> 3, study_id |-> "A", sample_id |-> 2],
   [id |-> 4, study_id |-> "B", sample_id |-> Null],
   [id |-> 5, study_id |-> "B", sample_id |-> 1],
   [id |-> 6, study_id |-> "B", sample_id |-> 2]}

\* Values bound to placeholders.
TextParam(s) == [t |-> "text", s |-> s, a |-> <<>>, n |-> 0]
ArrayParam(a) == [t |-> "array", s |-> "", a |-> a, n |-> 0]
IntParam(n) == [t |-> "int", s |-> "", a |-> <<>>, n |-> n]

\* Pieces of statement text: a placeholder reference `$n`, or a value written
\* into the text itself.
Dollar(n) == [isParam |-> TRUE, n |-> n, lit |-> ""]
Literal(v) == [isParam |-> FALSE, n |-> 0, lit |-> v]

\* One OR-ed clause of the access predicate.
\*   study     (col = study)
\*   existsAny (col = study AND EXISTS (... su.sample_id::text = ANY(sample[1])))
\*   existsEq  (col = study AND EXISTS (... su.sample_id::text = sample[1] OR ...))
\*   nullOrAny (col = study AND (df.sample_id IS NULL OR df.sample_id = ANY(sample[1])))
\*   nullOrEq  (col = study AND (df.sample_id IS NULL OR df.sample_id::text = sample[1] OR ...))
StudyPart(study) == [kind |-> "study", study |-> study, sample |-> <<>>]
SamplePart(kind, study, sample) == [kind |-> kind, study |-> study, sample |-> sample]

NoStmt == [table |-> "", head |-> <<>>, parts |-> <<>>, tail |-> <<>>, params |-> <<>>]

PartTerms(part) == {part.study} \cup {part.sample[j] : j \in 1..Len(part.sample)}

\* Every piece of text of the statement.
StmtTerms(stmt) ==
  {stmt.head[j] : j \in 1..Len(stmt.head)}
  \cup UNION {PartTerms(stmt.parts[i]) : i \in 1..Len(stmt.parts)}
  \cup {stmt.tail[j] : j \in 1..Len(stmt.tail)}

\* The placeholder numbers the statement text references.
Referenced(stmt) == {term.n : term \in {x \in StmtTerms(stmt) : x.isParam}}

\* The value a piece of text denotes when the statement runs.
TermValue(term, params) == IF term.isParam THEN params[term.n] ELSE TextParam(term.lit)

\* sample_id::text
SampleText(sampleId) == ToString(sampleId)

ArrayTexts(a) == {SampleText(a[j]) : j \in 1..Len(a)}

PartWellTyped(part, params) ==
  /\ TermValue(part.study, params).t = "text"
  /\ \A j \in 1..Len(part.sample) :
       TermValue(part.sample[j], params).t =
         (IF part.kind \in {"existsAny", "nullOrAny"} THEN "array" ELSE "text")

\* Does the clause hold of the row?
PartMatches(part, params, row) ==
  /\ TermValue(part.study, params).s = row.study_id
  /\ CASE part.kind = "study" -> TRUE
       [] part.kind = "existsAny" ->
            \E s \in row.samples :
              SampleText(s) \in ArrayTexts(TermValue(part.sample[1], params).a)
       [] part.kind = "existsEq" ->
            \E s \in row.samples : \E j \in 1..Len(part.sample) :
              SampleText(s) = TermValue(part.sample[j], params).s
       [] part.kind = "nullOrAny" ->
            \/ row.sample_id = Null
            \/ SampleText(row.sample_id) \in ArrayTexts(TermValue(part.sample[1], params).a)
       [] part.kind = "nullOrEq" ->
            \/ row.sample_id = Null
            \/ \E j \in 1..Len(part.sample) :
                 SampleText(row.sample_id) = TermValue(part.sample[j], params).s

\* pool.query(text, params) is refused by the store when the placeholders of the
\* text are not exactly $1..$len(params) (a bind error, or a parameter whose type
\* cannot be determined), when a bound value has the wrong type, or when the
\* WHERE clause is empty text.
QueryFails(stmt) ==
  \/ Referenced(stmt) # 1..Len(stmt.params)
  \/ stmt.parts = <<>>
  \/ \E i \in 1..Len(stmt.parts) : ~PartWellTyped(stmt.parts[i], stmt.params)

Table(stmt) == IF stmt.table \in {"datasets", "datasetFile"} THEN DatasetFiles ELSE Users

\* `WHERE x = $1 AND (...)`: the head filter of the statement, if it has one.
HeadMatches(stmt, row) ==
  IF stmt.table \in {"userTask", "datasetFile"}
  THEN ToString(row.id) = TermValue(stmt.head[1], stmt.params).s
  ELSE TRUE

\* The rows a statement that does not fail selects.
QueryRows(stmt) ==
  {row \in Table(stmt) :
     /\ HeadMatches(stmt, row)
     /\ \E i \in 1..Len(stmt.parts) : PartMatches(stmt.parts[i], stmt.params, row)}

\* ------------------------------------------- access-predicate compilation
\* studyAccess.map((access, idx) => ...) of users.js, tasklogs.js, tasks.js and of
\* routes/api.js: `first` is the index of the first study placeholder.
\* The same map with the study id written into the clause text instead of being
\* referenced through its placeholder.
QueryPartInlined(access, idx, first, len, sampleKind) ==
  IF IsStudyAdmin(access) THEN StudyPart(Literal(access.studyId))
  ELSE IF access.role = "SAMPLE_ADMIN"
       THEN SamplePart(sampleKind, Literal(access.studyId), <<Dollar(idx + first + len)>>)
       ELSE StudyPart(Literal(access.studyId))

QueryPart(access, idx, first, len, sampleKind) ==
  IF IsStudyAdmin(access) THEN StudyPart(Dollar(idx + first))
  ELSE IF access.role = "SAMPLE_ADMIN"
       THEN SamplePart(sampleKind, Dollar(idx + first), <<Dollar(idx + first + len)>>)
       ELSE StudyPart(Dollar(idx + first))

QueryParts(studyAccess, first, sampleKind) ==
  [i \in 1..Len(studyAccess) |->
     QueryPart(studyAccess[i], i - 1, first, Len(studyAccess), sampleKind)]

\* ...studyAccess.map((access) => access.studyId)
StudyParams(studyAccess) ==
  [i \in 1..Len(studyAccess) |-> TextParam(studyAccess[i].studyId)]

\* .filter(SAMPLE_ADMIN).forEach(params.push(Array.isArray(sampleIds) ? sampleIds : []))
RECURSIVE SampleArrayParams(_)
SampleArrayParams(studyAccess) ==
  IF studyAccess = <<>> THEN <<>>
  ELSE LET access == Head(studyAccess)
           rest == SampleArrayParams(Tail(studyAccess))
       IN IF access.role = "SAMPLE_ADMIN"
          THEN <<ArrayParam(IF access.sampleIds.isArray THEN access.sampleIds.items
                            ELSE <<>>)>> \o rest
          ELSE rest

\* sampleAdminQueryParts / updatedQueryParts of datasets.js and status.js: every
\* sample id of a SAMPLE_ADMIN grant is pushed as its own text parameter, at
\* index params.length + 1 at the time of the push.
RECURSIVE SamplesPushed(_)
SamplesPushed(studyAccess) ==
  IF studyAccess = <<>> THEN 0
  ELSE LET access == Head(studyAccess)
       IN (IF access.role = "SAMPLE_ADMIN" /\ access.sampleIds.isArray
           THEN Len(access.sampleIds.items) ELSE 0)
          + SamplesPushed(Tail(studyAccess))

\* The clause of the grant at 0-based idx; studyAccess.indexOf(access) is idx,
\* the grants of a decoded token being distinct objects.
UpdatedQueryPart(studyAccess, idx, first, sampleKind) ==
  LET access == studyAccess[idx + 1]
      before == (first - 1) + Len(studyAccess)
                  + SamplesPushed(SubSeq(studyAccess, 1, idx))
  IN IF access.role = "SAMPLE_ADMIN"
     THEN IF access.sampleIds.isArray /\ Len(access.sampleIds.items) > 0
          THEN SamplePart(sampleKind, Dollar(idx + first),
                          [j \in 1..Len(access.sampleIds.items) |-> Dollar(before + j)])
          ELSE StudyPart(Dollar(idx + first))
     ELSE StudyPart(Dollar(idx + first))

UpdatedQueryParts(studyAccess, first, sampleKind) ==
  [i \in 1..Len(studyAccess) |-> UpdatedQueryPart(studyAccess, i - 1, first, sampleKind)]

\* params.push(sampleId.toString()) for every sample id, in grant order.
RECURSIVE SampleTextParams(_)
SampleTextParams(studyAccess) ==
  IF studyAccess = <<>> THEN <<>>
  ELSE LET access == Head(studyAccess)
           rest == SampleTextParams(Tail(studyAccess))
       IN IF access.role = "SAMPLE_ADMIN" /\ access.sampleIds.isArray
          THEN [j \in 1..Len(access.sampleIds.items) |->
                  TextParam(SampleText(access.sampleIds.items[j]))] \o rest
          ELSE rest

\* ...studyAccess.filter(SAMPLE_ADMIN).map((access) => access.sampleIds) of api.js
RECURSIVE RawSampleArrayParams(_)
RawSampleArrayParams(studyAccess) ==
  IF studyAccess = <<>> THEN <<>>
  ELSE LET access == Head(studyAccess)
           rest == RawSampleArrayParams(Tail(studyAccess))
       IN IF access.role = "SAMPLE_ADMIN"
          THEN <<ArrayParam(access.sampleIds.items)>> \o rest
          ELSE rest

\* --------------------------------------------------------- request state
VARIABLES
  request,   \* what the client sent: how it authenticates and the grants it claims
  pc,        \* where the request is: "app", "router", "handler", "done", "crashed", or
             \* the await of the status handler: "status_step3", "status_dateRange",
             \* "status_submissions"
  reqUser,   \* req.user
  handler,   \* the route handler that took the request ("" while none has)
  daysQuery, \* req.query.days as the status handler read it (<<>> while unread or absent)
  days,      \* the status handler's `days`
  sent,      \* the statements passed to pool.query, in order
  response,  \* the response sent (status 0 while none is)
  stats,     \* the status handler's `stats` (basicMetricsResult.rows[0].stats)
  studyAggregationMap, \* the status handler's studyAggregationMap
  submissionsMap,      \* the status handler's submissionsMap
  loop,      \* the position of `for (const study of stats.by_study)` (0 before it)
  inflight,  \* the store calls the status handler sent and has no answer to yet
  failures,  \* the store calls of the status handler that failed
  alive,     \* the process is up
  taskLogs,  \* the store's fw_psy_user_task_log rows
  runs,      \* the runs of the status handler served side by side (SpecPair)
  responses, \* how many responses the request's handlers wrote to res
  userCall,  \* the last call of a User method and what it returned (SpecGate)
  fsPaths,   \* the paths the files handlers passed to fs, in order
  fileParams \* studyId, role and filepath of the request to a files route

\* What a request leaves alone outside the status handler.
statusLocals == <<stats, studyAggregationMap, submissionsMap, loop, inflight, failures, alive>>

vars == <<request, pc, reqUser, handler, daysQuery, days, sent, response, stats,
          studyAggregationMap, submissionsMap, loop, inflight, failures, alive,
          taskLogs, runs, responses, userCall, fsPaths, fileParams>>

NoUser == [defined |-> FALSE, studyAccess |-> <<>>, permissions |-> <<>>]
\* The `overall` object of a status report with every metric 0.
ZeroMetrics ==
  [users_total |-> 0, users_active_in_period |-> 0,
   tasks_assigned |-> 0, tasks_enabled |-> 0,
   activity_total_submissions |-> 0, activity_submissions_in_period |-> 0,
   activity_avg_submission_lag_seconds |-> 0, activity_avg_processing_time_seconds |-> 0,
   task_instances_total_used |-> 0, task_instances_used_in_period |-> 0]

\* `data` of a status response; time_aggregation "" when the object has no such
\* property.
NoReport == [defined |-> FALSE, overall |-> ZeroMetrics, by_study |-> <<>>, period_days |-> 0,
             time_aggregation |-> ""]
NoResponse == [status |-> 0, rows |-> {}, report |-> NoReport]

\* ------------------------------------------- the store's submission logs
\* SQL NULL in a result column (every date and count of the model is >= 0).
SqlNull == -1

\* The day the requests are served on (days count from an epoch).
Today == 1000

\* Rows of fw_psy_user_task_log joined to their user: the submission day, the
\* seconds from completion to submission, the seconds from submission to
\* processing (SqlNull while unprocessed). One task instance per log.
LogRow(id, user, day, lag, proc) ==
  [task_log_id |-> id, user_id |-> user, day |-> day, lag |-> lag, proc |-> proc]

\* Databases explored. Ranges of the studies A, B, C in days:
\*   1: 400, 100, none    2: 50, 95, 199    3: 365, 60, 0    4: 366, 61, 10
TaskLogTables ==
  [t \in 1..4 |->
     CASE t = 1 -> {LogRow(1, 1, 990, 30, 5), LogRow(2, 2, 590, 50, SqlNull),
                    LogRow(3, 4, 995, 10, 2), LogRow(4, 5, 895, 20, 4)}
       [] t = 2 -> {LogRow(1, 1, 990, 30, 5), LogRow(2, 3, 940, 40, 6),
                    LogRow(3, 4, 995, 10, 2), LogRow(4, 5, 900, 20, 4),
                    LogRow(5, 7, 999, 60, 8), LogRow(6, 7, 800, 70, SqlNull)}
       [] t = 3 -> {LogRow(1, 1, 999, 30, 5), LogRow(2, 2, 634, 50, 7),
                    LogRow(3, 4, 998, 10, 2), LogRow(4, 5, 938, 20, 4),
                    LogRow(5, 7, 997, 60, 8)}
       [] t = 4 -> {LogRow(1, 1, 999, 30, 5), LogRow(2, 2, 633, 50, 7),
                    LogRow(3, 4, 998, 10, 2), LogRow(4, 5, 937, 20, 4),
                    LogRow(5, 7, 997, 60, 8), LogRow(6, 7, 987, 70, 9)}]

StudyOfUser(userId) == (CHOOSE u \in Users : u.id = userId).study_id

\* JOIN fw_psy_user_task ut ... JOIN fw_psy_user u ... WHERE u.study_id = $1
LogsOfStudy(logs, studyId) == {l \in logs : StudyOfUser(l.user_id) = studyId}

SetMax(S) == CHOOSE x \in S : \A y \in S : y <= x
SetMin(S) == CHOOSE x \in S : \A y \in S : x <= y

\* The row of the date-range query: MIN, MAX and EXTRACT(DAY FROM (MAX - MIN)) of
\* the study's submission times, all NULL when the study has no log.
DateRangeRow(logs, studyId) ==
  LET dates == {l.day : l \in LogsOfStudy(logs, studyId)}
  IN IF dates = {}
     THEN [earliest_date |-> SqlNull, latest_date |-> SqlNull, date_range_days |-> SqlNull]
     ELSE [earliest_date |-> SetMin(dates), latest_date |-> SetMax(dates),
           date_range_days |-> SetMax(dates) - SetMin(dates)]

\* DATE_TRUNC(unit, submission_time)::date, on a calendar of 7-day weeks and
\* 30-day months counted from the epoch.
DateTrunc(unit, day) ==
  CASE unit = "day" -> day
    [] unit = "week" -> day - (day % 7)
    [] unit = "month" -> day - (day % 30)

RECURSIVE Ascending(_)
Ascending(S) ==
  IF S = {} THEN <<>> ELSE <<SetMin(S)>> \o Ascending(S \ {SetMin(S)})

\* The rows of the bucketed-submissions query, mapped as status.js 335-339 maps
\* them: GROUP BY the truncated date, COUNT(DISTINCT task_log_id), ORDER BY date.
SubmissionsSeries(logs, studyId, timeAggregation) ==
  LET studyLogs == LogsOfStudy(logs, studyId)
      dates == Ascending({DateTrunc(timeAggregation, l.day) : l \in studyLogs})
  IN [j \in 1..Len(dates) |->
        [date |-> dates[j],
         count |-> Cardinality({l \in studyLogs :
                                  DateTrunc(timeAggregation, l.day) = dates[j]}),
         aggregation |-> timeAggregation]]

RECURSIVE SumOf(_, _)
SumOf(S, field) ==
  IF S = {} THEN 0
  ELSE LET x == CHOOSE y \in S : TRUE IN x[field] + SumOf(S \ {x}, field)

\* ROUND(AVG(...)): NULL over no row; the rounding to two decimals is taken to
\* whole seconds.
AvgOf(S, field) == IF S = {} THEN SqlNull ELSE SumOf(S, field) \div Cardinality(S)

\* One row of the study_metrics CTE: the aggregates over the matched users of one
\* study and their logs; $1 is the cutoff, `d` days before today. Every user has
\* one assigned, enabled task.
StudyMetrics(logs, groupUsers, d) ==
  LET userIds == {u.id : u \in groupUsers}
      joined == {l \in logs : l.user_id \in userIds}
      recent == {l \in joined : l.day >= Today - d}
  IN [users_total |-> Cardinality(userIds),
      users_active_in_period |-> Cardinality({l.user_id : l \in recent}),
      tasks_assigned |-> Cardinality(userIds),
      tasks_enabled |-> Cardinality(userIds),
      activity_total_submissions |-> Cardinality(joined),
      activity_submissions_in_period |-> Cardinality(recent),
      activity_avg_submission_lag_seconds |-> AvgOf(recent, "lag"),
      activity_avg_processing_time_seconds |->
        AvgOf({l \in recent : l.proc # SqlNull}, "proc"),
      task_instances_total_used |-> Cardinality(joined),
      task_instances_used_in_period |-> Cardinality(recent)]

RECURSIVE SumMetric(_, _)
SumMetric(byStudy, metric) ==
  IF byStudy = <<>> THEN 0
  ELSE Head(byStudy).metrics[metric] + SumMetric(Tail(byStudy), metric)

\* SUM(column) FROM study_metrics: NULL over no row
SqlSum(byStudy, metric) == IF byStudy = <<>> THEN SqlNull ELSE SumMetric(byStudy, metric)

\* ROUND(AVG(column)) FROM study_metrics: the NULLs do not count
SqlAvg(byStudy, metric) ==
  LET known == SelectSeq(byStudy, LAMBDA s : s.metrics[metric] # SqlNull)
  IN IF known = <<>> THEN SqlNull ELSE SumMetric(known, metric) \div Len(known)

\* The `overall` object built from the study_metrics rows.
OverallMetrics(byStudy) ==
  [metric \in DOMAIN ZeroMetrics |->
     IF metric \in {"activity_avg_submission_lag_seconds",
                    "activity_avg_processing_time_seconds"}
     THEN SqlAvg(byStudy, metric) ELSE SqlSum(byStudy, metric)]

\* The orders in which GROUP BY u.study_id may return the groups.
Orderings(S) ==
  {o \in [1..Cardinality(S) -> S] : \A i, j \in 1..Cardinality(S) : o[i] = o[j] => i = j}

\* basicMetricsResult.rows[0].stats for the matched users, the groups in `order`.
\* by_study is '[]' when no group exists.
StatsOf(logs, matched, d, order) ==
  LET byStudy == [i \in 1..Len(order) |->
                    [study_id |-> order[i],
                     metrics |-> StudyMetrics(logs, {u \in matched : u.study_id = order[i]}, d)]]
  IN [defined |-> TRUE, overall |-> OverallMetrics(byStudy), by_study |-> byStudy]

NoStats == [defined |-> FALSE, overall |-> ZeroMetrics, by_study |-> <<>>]

\* Requests through the router: a bearer token that is missing, does not verify,
\* lacks userId or studyAccess, or decodes to a studyAccess list; or no
\* Authorization header and a signed token in the query string (?token=) that
\* decodes to a studyAccess list.
TokenRequests ==
  {[auth |-> k, studyAccess |-> <<>>] : k \in {"none", "forged", "badClaims"}}
  \cup {[auth |-> k, studyAccess |-> g] : k \in {"token", "queryToken"}, g \in GrantLists}

\* Requests reaching authenticateUser: x-user-id absent, or present with the
\* x-user-study-access list.
HeaderRequests ==
  {[auth |-> "noUserId", studyAccess |-> <<>>]}
  \cup {[auth |-> "headers", studyAccess |-> g] : g \in GrantLists}

\* The request is not to a files route.
NoFileParams == [studyId |-> "", role |-> "", filepath |-> <<>>]

\* No User method was called yet.
NoCall == [fn |-> "", studyId |-> "", minRole |-> "", sampleId |-> 0, result |-> FALSE]

InitWith(req, at, logs) ==
  /\ request = req
  /\ pc = at
  /\ reqUser = NoUser
  /\ handler = ""
  /\ daysQuery = <<>>
  /\ days = 0
  /\ sent = <<>>
  /\ response = NoResponse
  /\ stats = NoStats
  /\ studyAggregationMap = <<>>
  /\ submissionsMap = <<>>
  /\ loop = 0
  /\ inflight = {}
  /\ failures = {}
  /\ alive = TRUE
  /\ taskLogs = logs
  /\ runs = <<>>
  /\ responses = 0
  /\ userCall = NoCall
  /\ fsPaths = <<>>
  /\ fileParams = NoFileParams

Init == \E req \in TokenRequests : InitWith(req, "router", TaskLogTables[1])

\* res.status(s).json(...) and return, before any handler ran or inside handler h
Respond(h, status, rows, report, stmts) ==
  /\ pc' = "done"
  /\ handler' = h
  /\ response' = [status |-> status, rows |-> rows, report |-> report]
  /\ sent' = stmts
  /\ responses' = responses + 1
  /\ UNCHANGED <<request, reqUser, daysQuery, days, statusLocals, taskLogs, runs, userCall,
                 fsPaths, fileParams>>

\* new User(id, studyAccess) copied into req.user with its permissions
NewReqUser(studyAccess) ==
  [defined |-> TRUE, studyAccess |-> studyAccess, permissions |-> Permissions(studyAccess)]

\* ---- validateDataAccessToken (auth.js 120-223)
\* The structure check of decoded.studyAccess (auth.js 151-160).
\* The structure check without the `ROLES[access.role]` conjunct.
StudyAccessRoleUnchecked(studyAccess) ==
  \A i \in 1..Len(studyAccess) :
    LET access == studyAccess[i]
    IN /\ access.studyId # ""
       /\ access.role # ""
       /\ (access.role # "SAMPLE_ADMIN" \/ access.sampleIds.isArray)

StudyAccessWellFormed(studyAccess) ==
  \A i \in 1..Len(studyAccess) :
    LET access == studyAccess[i]
    IN /\ access.studyId # ""
       /\ access.role # ""
       /\ Truthy(RolesGet(access.role))
       /\ (access.role # "SAMPLE_ADMIN" \/ access.sampleIds.isArray)

\* The router mounts the middleware with router.use, where req.params holds no
\* studyId, so the check of auth.js 202-209 never rejects.
ValidateDataAccessToken ==
  /\ pc = "router"
  /\ IF request.auth \in {"none", "headers", "queryToken"}
     \* no Authorization header
     THEN Respond("", 401, {}, NoReport, <<>>)
     ELSE IF request.auth # "token"
          \* jwt.verify throws (caught), or a required claim is missing
          THEN Respond("", 403, {}, NoReport, <<>>)
     ELSE IF ~StudyAccessWellFormed(request.studyAccess)
          THEN Respond("", 403, {}, NoReport, <<>>)
     ELSE IF PermissionsThrows(request.studyAccess)
          \* `permissions: user.permissions` throws inside the try: caught
          THEN Respond("", 403, {}, NoReport, <<>>)
     ELSE /\ reqUser' = NewReqUser(request.studyAccess)
          /\ pc' = "handler"
          /\ UNCHANGED <<request, handler, daysQuery, days, sent, response, statusLocals,
                          taskLogs, runs, responses, userCall, fsPaths, fileParams>>

\* ---- authenticateUser (auth.js 226-292)
AuthenticateUser ==
  /\ pc = "app"
  /\ IF request.auth = "noUserId"
     THEN Respond("", 401, {}, NoReport, <<>>)
     ELSE IF PermissionsThrows(request.studyAccess)
          THEN Respond("", 401, {}, NoReport, <<>>)
     ELSE /\ reqUser' = NewReqUser(request.studyAccess)
          /\ pc' = "router"
          /\ UNCHANGED <<request, handler, daysQuery, days, sent, response, statusLocals,
                          taskLogs, runs, responses, userCall, fsPaths, fileParams>>

\* ------------------------------------------------------------- handlers
\* The handler without its permission check.
ListHandlerUnguarded(h, permission, stmt) ==
  /\ pc = "handler"
  /\ \E storeUp \in BOOLEAN :
       IF storeUp /\ ~QueryFails(stmt)
       THEN Respond(h, 200, QueryRows(stmt), NoReport, <<stmt>>)
       ELSE Respond(h, 500, {}, NoReport, <<stmt>>)

\* A permission-guarded handler that sends one statement and returns its rows.
\* storeUp: whether the store answers (a failed pool.query is caught: 500).
ListHandler(h, permission, stmt) ==
  /\ pc = "handler"
  /\ IF ~Includes(reqUser.permissions, permission)
     THEN Respond(h, 403, {}, NoReport, <<>>)
     ELSE \E storeUp \in BOOLEAN :
            IF storeUp /\ ~QueryFails(stmt)
            THEN Respond(h, 200, QueryRows(stmt), NoReport, <<stmt>>)
            ELSE Respond(h, 500, {}, NoReport, <<stmt>>)

\* routes/api/users.js
UsersStmt(studyAccess) ==
  [table |-> "users", head |-> <<>>,
   parts |-> QueryParts(studyAccess, 1, "existsAny"), tail |-> <<>>,
   params |-> StudyParams(studyAccess) \o SampleArrayParams(studyAccess)]

GetUsers == ListHandler("users", "READ_USERS", UsersStmt(reqUser.studyAccess))

\* routes/api/tasklogs.js
TasklogsStmt(studyAccess) ==
  [table |-> "tasklogs", head |-> <<>>,
   parts |-> QueryParts(studyAccess, 1, "existsAny"), tail |-> <<>>,
   params |-> StudyParams(studyAccess) \o SampleArrayParams(studyAccess)]

GetTasklogs == ListHandler("tasklogs", "READ_LOGS", TasklogsStmt(reqUser.studyAccess))

\* routes/api/tasks.js: $1 is the userId of the path
UserTaskStmt(userId, studyAccess) ==
  [table |-> "userTask", head |-> <<Dollar(1)>>,
   parts |-> QueryParts(studyAccess, 2, "existsAny"), tail |-> <<>>,
   params |-> <<TextParam(userId)>> \o StudyParams(studyAccess)
                \o SampleArrayParams(studyAccess)]

UserIdInputs == {ToString(u.id) : u \in Users}

GetUserTask ==
  \E userId \in UserIdInputs :
    ListHandler("userTask", "READ_TASKS", UserTaskStmt(userId, reqUser.studyAccess))

\* routes/api/datasets.js, GET /
DatasetsStmt(studyAccess) ==
  [table |-> "datasets", head |-> <<>>,
   parts |-> UpdatedQueryParts(studyAccess, 1, "nullOrEq"), tail |-> <<>>,
   params |-> StudyParams(studyAccess) \o SampleTextParams(studyAccess)]

GetDatasets == ListHandler("datasets", "READ_DATASETS", DatasetsStmt(reqUser.studyAccess))

\* routes/api.js, GET /users and GET /datasets
ApiJsUsersStmt(studyAccess) ==
  [table |-> "users", head |-> <<>>,
   parts |-> QueryParts(studyAccess, 1, "existsAny"), tail |-> <<>>,
   params |-> StudyParams(studyAccess) \o RawSampleArrayParams(studyAccess)]

ApiJsGetUsers == ListHandler("api.js:users", "READ_USERS", ApiJsUsersStmt(reqUser.studyAccess))

ApiJsDatasetsStmt(studyAccess) ==
  [table |-> "datasets", head |-> <<>>,
   parts |-> QueryParts(studyAccess, 1, "nullOrAny"), tail |-> <<>>,
   params |-> StudyParams(studyAccess) \o RawSampleArrayParams(studyAccess)]

ApiJsGetDatasets ==
  ListHandler("api.js:datasets", "READ_DATASETS", ApiJsDatasetsStmt(reqUser.studyAccess))

\* routes/api/datasets.js, GET /:fileId. The router's middleware has set req.user,
\* so the `?token=` branch is not taken. onDisk: fs.existsSync(filePath).
DatasetFileStmt(fileId, studyAccess) ==
  [table |-> "datasetFile", head |-> <<Dollar(1)>>,
   parts |-> UpdatedQueryParts(studyAccess, 2, "nullOrEq"), tail |-> <<>>,
   params |-> <<TextParam(fileId)>> \o StudyParams(studyAccess)
                \o SampleTextParams(studyAccess)]

FileIdInputs == {ToString(f.id) : f \in DatasetFiles}

GetDatasetFile ==
  /\ pc = "handler"
  /\ \E fileId \in FileIdInputs, storeUp \in BOOLEAN, onDisk \in BOOLEAN :
       LET stmt == DatasetFileStmt(fileId, reqUser.studyAccess)
       IN IF ~Includes(reqUser.permissions, "READ_DATASETS")
          THEN Respond("datasetFile", 403, {}, NoReport, <<>>)
          ELSE IF ~storeUp \/ QueryFails(stmt)
               THEN Respond("datasetFile", 500, {}, NoReport, <<stmt>>)
          ELSE IF QueryRows(stmt) = {} \/ ~onDisk
               THEN Respond("datasetFile", 404, {}, NoReport, <<stmt>>)
          ELSE Respond("datasetFile", 200, QueryRows(stmt), NoReport, <<stmt>>)

\* routes/api/participants.js: studyId and sampleId come from the query string
\* (sampleId "" when absent); page, pageSize and search keep their defaults.
ParticipantsParts(sampleId) ==
  IF sampleId # ""
  THEN <<SamplePart("existsEq", Dollar(1), <<Dollar(2)>>)>>
  ELSE <<StudyPart(Dollar(1))>>

ParticipantsBaseParams(studyId, sampleId) ==
  <<TextParam(studyId)>> \o (IF sampleId # "" THEN <<TextParam(sampleId)>> ELSE <<>>)

CountStmt(studyId, sampleId) ==
  [table |-> "participants", head |-> <<>>,
   parts |-> ParticipantsParts(sampleId), tail |-> <<>>,
   params |-> ParticipantsBaseParams(studyId, sampleId)]

DataStmt(studyId, sampleId) ==
  LET paramIndex == Len(ParticipantsBaseParams(studyId, sampleId)) + 1
  IN [table |-> "participants", head |-> <<>>,
      parts |-> ParticipantsParts(sampleId),
      tail |-> <<Dollar(paramIndex), Dollar(paramIndex + 1)>>,
      params |-> ParticipantsBaseParams(studyId, sampleId) \o <<IntParam(20), IntParam(0)>>]

SampleIdInputs == {""} \cup {SampleText(x) : x \in SampleIdValues}

GetParticipants ==
  /\ pc = "handler"
  /\ \E studyId \in StudyIds, sampleId \in SampleIdInputs, storeUp \in BOOLEAN :
       LET countStmt == CountStmt(studyId, sampleId)
           dataStmt == DataStmt(studyId, sampleId)
       IN IF ~storeUp \/ QueryFails(countStmt)
          THEN Respond("participants", 500, {}, NoReport, <<countStmt>>)
          ELSE IF QueryFails(dataStmt)
               THEN Respond("participants", 500, {}, NoReport, <<countStmt, dataStmt>>)
          ELSE Respond("participants", 200, QueryRows(dataStmt), NoReport,
                       <<countStmt, dataStmt>>)

\* routes/api/status.js
\* `parseInt(req.query.days) || 7`: req.query.days is absent (<<>>) or the text of
\* an integer (<<n>>); NaN and 0 are falsy and give 7.
ParseDays(q) ==
  IF q = <<>> \/ q[1] = 0 THEN 7 ELSE q[1]

DaysInputs == {<<>>, <<-1>>, <<0>>, <<1>>, <<30>>, <<365>>, <<366>>, <<400>>}

\* The validation with its lower bound off by one: days <= 1 || days > 365
DaysInvalidFromOne(d) == d <= 1 \/ d > 365

\* days <= 0 || days > 365
DaysInvalid(d) == d <= 0 \/ d > 365

\* The body sent when no study is accessible (status.js 40-58).
ZeroReport(d) ==
  [defined |-> TRUE, overall |-> ZeroMetrics, by_study |-> <<>>, period_days |-> d,
   time_aggregation |-> ""]

StatusStmt(studyAccess) ==
  [table |-> "status", head |-> <<Dollar(1)>>,
   parts |-> UpdatedQueryParts(studyAccess, 2, "existsEq"), tail |-> <<>>,
   params |-> <<TextParam("cutoffDate")>> \o StudyParams(studyAccess)
                \o SampleTextParams(studyAccess)]

\* ------------------------------------- the status handler after its awaits
\* studyAggregationMap and submissionsMap: objects keyed by study id, kept as the
\* sequence of their entries in insertion order. obj[key] = value appends a new
\* key and keeps the place of a known one.
MapHas(map, key) == \E i \in 1..Len(map) : map[i].key = key

MapGet(map, key) == map[CHOOSE i \in 1..Len(map) : map[i].key = key].value

MapSet(map, key, value) ==
  IF MapHas(map, key)
  THEN [i \in 1..Len(map) |->
          IF map[i].key = key THEN [key |-> key, value |-> value] ELSE map[i]]
  ELSE Append(map, [key |-> key, value |-> value])

\* parseFloat(row.date_range_days || 0)
DateRangeDays(row) == IF row.date_range_days = SqlNull THEN 0 ELSE row.date_range_days

\* The unit of status.js 296-304 with the month limit taken inclusive.
TimeAggregationFrom365(dateRangeDays) ==
  IF dateRangeDays >= 365 THEN "month"
  ELSE IF dateRangeDays > 60 THEN "week"
  ELSE "day"

\* The unit chosen for a date range (status.js 296-304; routes/api.js 384-392).
TimeAggregation(dateRangeDays) ==
  IF dateRangeDays > 365 THEN "month"
  ELSE IF dateRangeDays > 60 THEN "week"
  ELSE "day"

\* The unit the PostgreSQL 9.6 copy of the handler chooses (part_001 308-320): day
\* when a column of the row is null, else by the limits 90 and 30.
Part001TimeAggregation(row) ==
  IF row.date_range_days # SqlNull /\ row.earliest_date # SqlNull
     /\ row.latest_date # SqlNull
  THEN IF row.date_range_days > 90 THEN "month"
       ELSE IF row.date_range_days > 30 THEN "week"
       ELSE "day"
  ELSE "day"

AggregationEntry(timeAggregation, dateRangeDays, earliestDate, latestDate) ==
  [timeAggregation |-> timeAggregation, dateRangeDays |-> dateRangeDays,
   earliestDate |-> earliestDate, latestDate |-> latestDate]

\* The entry stored when a study has no row or its queries fail.
DefaultAggregation == AggregationEntry("day", 0, SqlNull, SqlNull)

DateRangeStmt(studyId) ==
  [table |-> "dateRange", head |-> <<>>, parts |-> <<StudyPart(Dollar(1))>>,
   tail |-> <<>>, params |-> <<TextParam(studyId)>>]

\* DATE_TRUNC('${timeAggregation}', ...): the unit is written into the text.
SubmissionsStmt(studyId, timeAggregation) ==
  [table |-> "submissions", head |-> <<Literal(timeAggregation)>>,
   parts |-> <<StudyPart(Dollar(1))>>, tail |-> <<>>,
   params |-> <<TextParam(studyId)>>]

\* A store call the handler awaits; `hangs`: the store never answers it.
StoreCall(kind, studyId, hangs) == [kind |-> kind, study |-> studyId, hangs |-> hangs]

\* The locals of one run of the handler, from its first await on.
NewRun ==
  [pc |-> "handler", sent |-> <<>>, response |-> NoResponse, stats |-> NoStats,
   studyAggregationMap |-> <<>>, submissionsMap |-> <<>>, loop |-> 0,
   inflight |-> {}, failures |-> {}, alive |-> TRUE, responses |-> 0]

\* await pool.query(...): the statements go to the store and the run waits at `at`.
Await(run, at, calls, stmts) ==
  [run EXCEPT !.pc = at, !.sent = @ \o stmts, !.inflight = @ \cup calls]

\* res.status(status).json(...)
Send(run, status, report) ==
  [run EXCEPT !.pc = "done",
              !.response = [status |-> status, rows |-> {}, report |-> report],
              !.responses = @ + 1]

\* A handler whose try starts after the aggregate query is awaited.
TryCoversLoopOnly(site) == site \in {"loop", "merge"}

\* The try blocks of the handler (status.js 11, 138): does one enclose the site?
TryCovers(site) == site \in {"step3", "loop", "merge"}

\* An error thrown at a site: caught (status.js 442-449) and answered 500, or, were
\* it outside every try, an unhandled rejection that ends the process.
Thrown(run, site) ==
  IF TryCovers(site) THEN Send(run, 500, NoReport)
  ELSE [run EXCEPT !.pc = "crashed", !.alive = FALSE]

\* The merge with the studies taken last to first.
MergeByStudyReversed(byStudy, aggregationMap, seriesMap) ==
  [i \in 1..Len(byStudy) |->
     LET study == byStudy[Len(byStudy) + 1 - i]
         studyId == study.study_id
     IN [study_id |-> studyId, metrics |-> study.metrics,
         submissions_by_day |->
           (IF MapHas(seriesMap, studyId) THEN MapGet(seriesMap, studyId)
            ELSE <<>>),
         time_aggregation |->
           (IF MapHas(aggregationMap, studyId)
            THEN MapGet(aggregationMap, studyId).timeAggregation ELSE "day"),
         date_range_days |->
           (IF MapHas(aggregationMap, studyId)
            THEN MapGet(aggregationMap, studyId).dateRangeDays ELSE 0)]]

\* stats.by_study.forEach((study) => ...) of status.js 366-395: the series, unit
\* and range of each study are written into its entry, in place.
MergeByStudy(byStudy, aggregationMap, seriesMap) ==
  [i \in 1..Len(byStudy) |->
     LET study == byStudy[i]
         studyId == study.study_id
     IN [study_id |-> studyId, metrics |-> study.metrics,
         submissions_by_day |->
           (IF MapHas(seriesMap, studyId) THEN MapGet(seriesMap, studyId)
            ELSE <<>>),
         time_aggregation |->
           (IF MapHas(aggregationMap, studyId)
            THEN MapGet(aggregationMap, studyId).timeAggregation ELSE "day"),
         date_range_days |->
           (IF MapHas(aggregationMap, studyId)
            THEN MapGet(aggregationMap, studyId).dateRangeDays ELSE 0)]]

\* aggregationCounts: Object.values(studyAggregationMap).reduce(...), the units in
\* the order they are first met, each with its number of studies.
RECURSIVE AggregationCounts(_, _)
AggregationCounts(counts, values) ==
  IF values = <<>> THEN counts
  ELSE LET unit == Head(values).value.timeAggregation
       IN AggregationCounts(
            MapSet(counts, unit, (IF MapHas(counts, unit) THEN MapGet(counts, unit) ELSE 0) + 1),
            Tail(values))

\* Object.entries(aggregationCounts).sort((a, b) => b[1] - a[1])[0]?.[0] || "day":
\* the sort is stable, so the first unit of the greatest count comes first.
OverallAggregation(aggregationMap) ==
  LET counts == AggregationCounts(<<>>, aggregationMap)
  IN IF counts = <<>> THEN "day"
     ELSE counts[CHOOSE i \in 1..Len(counts) :
                   /\ \A j \in 1..Len(counts) : counts[j].value <= counts[i].value
                   /\ \A j \in 1..(i - 1) : counts[j].value < counts[i].value].key

\* res.json({success, data}) of status.js 432-441
SendReport(run, d) ==
  Send(run, 200,
       [defined |-> TRUE, overall |-> run.stats.overall,
        by_study |-> MergeByStudy(run.stats.by_study, run.studyAggregationMap,
                                  run.submissionsMap),
        period_days |-> d,
        time_aggregation |-> OverallAggregation(run.studyAggregationMap)])

\* Every remaining study's date-range query sent at once.
DispatchAll(byStudy, i) == [j \in 1..(Len(byStudy) + 1 - i) |-> byStudy[i + j - 1].study_id]

\* The studies whose date-range query is sent when the loop reaches position i:
\* `for (const study of stats.by_study)` awaits inside its body, one study a turn.
Dispatch(byStudy, i) == <<byStudy[i].study_id>>

\* The loop reaches position i: past the end the report is merged and sent, else
\* the date-range query of the study is awaited.
EnterStudy(run, d, i, hangs) ==
  IF i > Len(run.stats.by_study) THEN SendReport([run EXCEPT !.loop = i], d)
  ELSE LET ids == Dispatch(run.stats.by_study, i)
       IN Await([run EXCEPT !.loop = i], "status_dateRange",
                {StoreCall("dateRange", ids[j], hangs) : j \in 1..Len(ids)},
                [j \in 1..Len(ids) |-> DateRangeStmt(ids[j])])

\* The catch keeping the entry the date-range query had stored.
StudyErrorKeepsAggregation(aggregationMap, studyId) ==
  IF MapHas(aggregationMap, studyId) THEN aggregationMap
  ELSE MapSet(aggregationMap, studyId, DefaultAggregation)

\* catch (studyError): studyAggregationMap[studyId] = {day, 0, null, null}
StudyErrorDefaults(aggregationMap, studyId) ==
  MapSet(aggregationMap, studyId, DefaultAggregation)

\* The loop position taken up again after a study's catch, were the study retried.
RetryStudy(i) == i

\* The loop position after a study's catch: the next study.
AfterStudyError(i) == i + 1

\* The start of the handler (status.js 24-250): the days are validated, a caller
\* without accessible study gets the zero report, else the aggregate statement
\* is sent.
StatusStart(run, studyAccess, d, hangs) ==
  IF DaysInvalid(d) THEN Send(run, 400, NoReport)
  ELSE IF Len(GetAccessibleStudies(studyAccess, "VIEWER")) = 0
       THEN Send(run, 200, ZeroReport(d))
  ELSE Await(run, "status_step3", {StoreCall("step3", "", hangs)},
             <<StatusStmt(studyAccess)>>)

\* basicMetricsResult arrives (status.js 250-277): a failure is thrown to the
\* catch; else stats is read, the two maps start empty and the loop begins.
BasicMetricsResult(run, logs, d, ok, order, hangs) ==
  LET stmt == run.sent[1]
      call == CHOOSE c \in run.inflight : c.kind = "step3"
      left == [run EXCEPT !.inflight = @ \ {call}]
  IN IF ~ok \/ QueryFails(stmt)
     THEN Thrown([left EXCEPT !.failures = @ \cup {call}], "step3")
     ELSE EnterStudy([left EXCEPT !.stats = StatsOf(logs, QueryRows(stmt), d, order),
                                  !.studyAggregationMap = <<>>,
                                  !.submissionsMap = <<>>],
                     d, 1, hangs)

\* ---- the other copies of the status handler
\* routes/api.js, GET /status: the access clause of lines 217-230 and its params.
ApiJsStatusStmt(studyAccess) ==
  [table |-> "status", head |-> <<Dollar(1)>>,
   parts |-> QueryParts(studyAccess, 2, "existsAny"), tail |-> <<>>,
   params |-> <<TextParam("cutoffDate")>> \o StudyParams(studyAccess)
                \o RawSampleArrayParams(studyAccess)]

\* routes/api.js 167-350: as status.js up to the first pool.query.
ApiJsStatusStart(run, studyAccess, d, hangs) ==
  IF DaysInvalid(d) THEN Send(run, 400, NoReport)
  ELSE IF Len(GetAccessibleStudies(studyAccess, "VIEWER")) = 0
       THEN Send(run, 200, ZeroReport(d))
  ELSE Await(run, "status_step3", {StoreCall("step3", "", hangs)},
             <<ApiJsStatusStmt(studyAccess)>>)

\* routes/api.js 353-365: by_study is json_agg(...) with no COALESCE, null when
\* study_metrics has no row, and is iterated unguarded: `for (const study of
\* null)` throws a TypeError inside the try.
ApiJsBasicMetricsResult(run, logs, d, ok, order, hangs) ==
  LET stmt == run.sent[1]
      call == CHOOSE c \in run.inflight : c.kind = "step3"
      left == [run EXCEPT !.inflight = @ \ {call}]
  IN IF ~ok \/ QueryFails(stmt)
     THEN Thrown([left EXCEPT !.failures = @ \cup {call}], "step3")
     ELSE IF QueryRows(stmt) = {}
          THEN Thrown([left EXCEPT !.stats = StatsOf(logs, {}, d, <<>>)], "loop")
     ELSE EnterStudy([left EXCEPT !.stats = StatsOf(logs, QueryRows(stmt), d, order),
                                  !.studyAggregationMap = <<>>,
                                  !.submissionsMap = <<>>],
                     d, 1, hangs)

\* src/unnamed/part_001 246-277: `const stats` is declared inside the try block of
\* the query (255) and read after it (277), where no `stats` is in scope: a
\* ReferenceError, caught by the handler's catch (454-456). A failed query is
\* answered 500 by the catch of lines 262-272.
Part001BasicMetricsResult(run, logs, d, ok, order, hangs) ==
  LET stmt == run.sent[1]
      call == CHOOSE c \in run.inflight : c.kind = "step3"
      left == [run EXCEPT !.inflight = @ \ {call}]
  IN IF ~ok \/ QueryFails(stmt)
     THEN Thrown([left EXCEPT !.failures = @ \cup {call}], "step3")
     ELSE Thrown(left, "loop")

\* The handler that took the request continues after its aggregate query.
BasicMetricsResultOf(h, run, logs, d, ok, order, hangs) ==
  IF h = "api.js:status" THEN ApiJsBasicMetricsResult(run, logs, d, ok, order, hangs)
  ELSE IF h = "part_001:status"
       THEN Part001BasicMetricsResult(run, logs, d, ok, order, hangs)
  ELSE BasicMetricsResult(run, logs, d, ok, order, hangs)

\* A catch (studyError) that answers 500 itself and lets the loop go on.
StudyErrorResponds(run, d, studyId, hangs) ==
  EnterStudy([Send(run, 500, NoReport) EXCEPT
                !.studyAggregationMap = StudyErrorDefaults(@, studyId),
                !.submissionsMap = MapSet(@, studyId, <<>>)],
             d, AfterStudyError(run.loop), hangs)

\* catch (studyError) of status.js 349-363, then the next turn of the loop.
StudyError(run, d, studyId, hangs) ==
  EnterStudy([run EXCEPT
                !.studyAggregationMap = StudyErrorDefaults(@, studyId),
                !.submissionsMap = MapSet(@, studyId, <<>>)],
             d, AfterStudyError(run.loop), hangs)

\* dateRangeResult arrives (status.js 292-332): the unit is chosen and stored and
\* the bucketed-submissions query is awaited. The aggregate query always returns
\* one row, so the branch of an empty result is not taken.
DateRangeResult(run, logs, d, ok, hangs) ==
  LET studyId == run.stats.by_study[run.loop].study_id
      call == CHOOSE c \in run.inflight : c.kind = "dateRange" /\ c.study = studyId
      left == [run EXCEPT !.inflight = @ \ {call}]
      row == DateRangeRow(logs, studyId)
      dateRangeDays == DateRangeDays(row)
      timeAggregation == TimeAggregation(dateRangeDays)
  IN IF ~ok THEN StudyError([left EXCEPT !.failures = @ \cup {call}], d, studyId, hangs)
     ELSE Await([left EXCEPT !.studyAggregationMap =
                   MapSet(@, studyId,
                          AggregationEntry(timeAggregation, dateRangeDays,
                                           row.earliest_date, row.latest_date))],
                "status_submissions",
                {StoreCall("submissions", studyId, hangs)},
                <<SubmissionsStmt(studyId, timeAggregation)>>)

\* submissionsResult arrives (status.js 330-345): the series is stored and the
\* loop goes on.
SubmissionsResult(run, logs, d, ok, hangs) ==
  LET studyId == run.stats.by_study[run.loop].study_id
      call == CHOOSE c \in run.inflight : c.kind = "submissions" /\ c.study = studyId
      left == [run EXCEPT !.inflight = @ \ {call}]
      timeAggregation == MapGet(run.studyAggregationMap, studyId).timeAggregation
  IN IF ~ok THEN StudyError([left EXCEPT !.failures = @ \cup {call}], d, studyId, hangs)
     ELSE EnterStudy([left EXCEPT !.submissionsMap =
                        MapSet(@, studyId, SubmissionsSeries(logs, studyId, timeAggregation))],
                     d, run.loop + 1, hangs)

\* The locals of the request's run of the status handler.
RunOf ==
  [pc |-> pc, sent |-> sent, response |-> response, stats |-> stats,
   studyAggregationMap |-> studyAggregationMap, submissionsMap |-> submissionsMap,
   loop |-> loop, inflight |-> inflight, failures |-> failures, alive |-> alive,
   responses |-> responses]

SetRun(run) ==
  /\ pc' = run.pc
  /\ sent' = run.sent
  /\ response' = run.response
  /\ stats' = run.stats
  /\ studyAggregationMap' = run.studyAggregationMap
  /\ submissionsMap' = run.submissionsMap
  /\ loop' = run.loop
  /\ inflight' = run.inflight
  /\ failures' = run.failures
  /\ alive' = run.alive
  /\ responses' = run.responses

\* The store call the run waits for, if the store answers it.
Answered(run, kind) == \E call \in run.inflight : call.kind = kind /\ ~call.hangs

\* The study ids among the rows the aggregate statement matches.
MatchedStudies(stmt) ==
  IF QueryFails(stmt) THEN {} ELSE {row.study_id : row \in QueryRows(stmt)}

\* From the request to the first pool.query of the status handler.
GetStatus ==
  /\ pc = "handler"
  /\ \E q \in DaysInputs, hangs \in BOOLEAN :
       /\ handler' = "status"
       /\ daysQuery' = q
       /\ days' = ParseDays(q)
       /\ SetRun(StatusStart(RunOf, reqUser.studyAccess, ParseDays(q), hangs))
       /\ UNCHANGED <<request, reqUser, taskLogs, runs, userCall, fsPaths, fileParams>>

\* routes/api.js, GET /status
ApiJsGetStatus ==
  /\ pc = "handler"
  /\ \E q \in DaysInputs, hangs \in BOOLEAN :
       /\ handler' = "api.js:status"
       /\ daysQuery' = q
       /\ days' = ParseDays(q)
       /\ SetRun(ApiJsStatusStart(RunOf, reqUser.studyAccess, ParseDays(q), hangs))
       /\ UNCHANGED <<request, reqUser, taskLogs, runs, userCall, fsPaths, fileParams>>

\* src/unnamed/part_001, GET / (the PostgreSQL 9.6 copy of the status router)
Part001GetStatus ==
  /\ pc = "handler"
  /\ \E q \in DaysInputs, hangs \in BOOLEAN :
       /\ handler' = "part_001:status"
       /\ daysQuery' = q
       /\ days' = ParseDays(q)
       /\ SetRun(StatusStart(RunOf, reqUser.studyAccess, ParseDays(q), hangs))
       /\ UNCHANGED <<request, reqUser, taskLogs, runs, userCall, fsPaths, fileParams>>

\* The store answers the aggregate query, or fails it.
OnBasicMetrics ==
  /\ pc = "status_step3"
  /\ Answered(RunOf, "step3")
  /\ \E ok \in BOOLEAN, hangs \in BOOLEAN, order \in Orderings(MatchedStudies(sent[1])) :
       SetRun(BasicMetricsResultOf(handler, RunOf, taskLogs, days, ok, order, hangs))
  /\ UNCHANGED <<request, reqUser, handler, daysQuery, days, taskLogs, runs, userCall, fsPaths, fileParams>>

\* The store answers the date-range query of the loop's study, or fails it.
OnDateRange ==
  /\ pc = "status_dateRange"
  /\ Answered(RunOf, "dateRange")
  /\ \E ok \in BOOLEAN, hangs \in BOOLEAN :
       SetRun(DateRangeResult(RunOf, taskLogs, days, ok, hangs))
  /\ UNCHANGED <<request, reqUser, handler, daysQuery, days, taskLogs, runs, userCall, fsPaths, fileParams>>

\* The store answers the bucketed-submissions query of the loop's study, or fails it.
OnSubmissions ==
  /\ pc = "status_submissions"
  /\ Answered(RunOf, "submissions")
  /\ \E ok \in BOOLEAN, hangs \in BOOLEAN :
       SetRun(SubmissionsResult(RunOf, taskLogs, days, ok, hangs))
  /\ UNCHANGED <<request, reqUser, handler, daysQuery, days, taskLogs, runs, userCall, fsPaths, fileParams>>

\* The process, still up, takes the client's next request.
NextRequest ==
  /\ pc = "done"
  /\ alive
  /\ pc' = (IF request.auth \in {"noUserId", "headers"} THEN "app" ELSE "router")
  /\ reqUser' = NoUser
  /\ handler' = ""
  /\ daysQuery' = <<>>
  /\ days' = 0
  /\ sent' = <<>>
  /\ response' = NoResponse
  /\ stats' = NoStats
  /\ studyAggregationMap' = <<>>
  /\ submissionsMap' = <<>>
  /\ loop' = 0
  /\ inflight' = {}
  /\ failures' = {}
  /\ responses' = 0
  /\ UNCHANGED <<request, alive, taskLogs, runs, userCall, fsPaths, fileParams>>

Next ==
  \/ ValidateDataAccessToken
  \/ GetUsers
  \/ GetTasklogs
  \/ GetUserTask
  \/ GetDatasets
  \/ GetDatasetFile
  \/ GetParticipants
  \/ GetStatus
  \/ ApiJsGetUsers
  \/ ApiJsGetDatasets
  \/ OnBasicMetrics
  \/ OnDateRange
  \/ OnSubmissions
  \/ NextRequest

Spec == Init /\ [][Next]_vars

\* The User class on the unvalidated x-user-study-access header (the app that
\* mounts authenticateUser in front of the router).
InitUser == \E req \in HeaderRequests : InitWith(req, "app", TaskLogTables[1])

NextUser == AuthenticateUser \/ ValidateDataAccessToken

SpecUser == InitUser /\ [][NextUser]_vars

\* The status handler alone, on callers over three studies and on every database.
Grant(studyId, role) == [studyId |-> studyId, role |-> role, sampleIds |-> NoSampleIds]
SampleGrant(studyId, a) ==
  [studyId |-> studyId, role |-> "SAMPLE_ADMIN", sampleIds |-> SampleIdsArray(a)]

StatusCallers ==
  {<<>>,
   <<Grant("A", "STUDY_ADMIN")>>,
   <<Grant("A", "STUDY_ADMIN"), Grant("B", "VIEWER"), Grant("C", "STUDY_ADMIN")>>,
   <<SampleGrant("A", <<1>>), Grant("B", "STUDY_ADMIN")>>,
   <<SampleGrant("C", <<2>>)>>}

InitStatus ==
  \E caller \in StatusCallers, t \in DOMAIN TaskLogTables :
    InitWith([auth |-> "token", studyAccess |-> caller], "router", TaskLogTables[t])

NextStatus ==
  \/ ValidateDataAccessToken
  \/ GetStatus
  \/ OnBasicMetrics
  \/ OnDateRange
  \/ OnSubmissions
  \/ NextRequest

SpecStatus == InitStatus /\ [][NextStatus]_vars

\* The same under weak fairness: a step that stays possible is taken (the store
\* answers the calls it does not leave hanging, the handler runs on). A request
\* waits on one store call at a time, so callers of at most one study already
\* show every wait of the handler.
SingleStudyCallers ==
  {<<>>,
   <<Grant("A", "STUDY_ADMIN")>>,
   <<Grant("B", "VIEWER")>>,
   <<SampleGrant("C", <<2>>)>>}

InitStatusFair ==
  \E caller \in SingleStudyCallers, t \in DOMAIN TaskLogTables :
    InitWith([auth |-> "token", studyAccess |-> caller], "router", TaskLogTables[t])

SpecStatusFair == InitStatusFair /\ [][NextStatus]_vars /\ WF_vars(NextStatus)

\* The three copies of the status handler side by side.
NextStatusAll ==
  \/ ValidateDataAccessToken
  \/ GetStatus
  \/ ApiJsGetStatus
  \/ Part001GetStatus
  \/ OnBasicMetrics
  \/ OnDateRange
  \/ OnSubmissions
  \/ NextRequest

SpecStatusAll == InitStatus /\ [][NextStatusAll]_vars

\* ------------------------------------------- two concurrent status requests
\* Two requests of different callers are in the handler at once; the event loop
\* runs one continuation at a time, in any order. runs[i] holds request i: its
\* caller (req.user), its days, the locals of its run of the handler and the
\* store results it received so far.
PairCallers ==
  {<<<<Grant("A", "STUDY_ADMIN"), Grant("B", "VIEWER"), Grant("C", "STUDY_ADMIN")>>,
     <<SampleGrant("A", <<1>>), Grant("B", "STUDY_ADMIN")>>>>,
   <<<<SampleGrant("A", <<1>>), Grant("B", "STUDY_ADMIN")>>,
     <<Grant("A", "STUDY_ADMIN")>>>>,
   <<<<Grant("A", "STUDY_ADMIN")>>, <<>>>>}

PairRequest(caller, q) ==
  [caller |-> caller, days |-> ParseDays(q), results |-> <<>>, run |-> NewRun]

\* The two maps as one module-level pair of objects, shared by every request.
MapOwnerShared(i) == 1

\* studyAggregationMap and submissionsMap are created by `const ... = {}` inside
\* the handler (status.js 271-272): each request owns the objects it created.
MapOwner(i) == i

\* The locals request i reads: its own, with the two maps of their owner.
PairView(i) ==
  [runs[i].run EXCEPT
     !.studyAggregationMap = runs[MapOwner(i)].run.studyAggregationMap,
     !.submissionsMap = runs[MapOwner(i)].run.submissionsMap]

\* Request i's continuation ran to its next await: its locals and the two maps
\* are written back, the store result it consumed is noted.
PairStore(i, run, result) ==
  LET own == [runs EXCEPT ![i].run = run, ![i].results = @ \o result]
  IN [own EXCEPT
        ![MapOwner(i)].run.studyAggregationMap = run.studyAggregationMap,
        ![MapOwner(i)].run.submissionsMap = run.submissionsMap]

PairUnchanged ==
  UNCHANGED <<request, pc, reqUser, handler, daysQuery, days, sent, response,
              statusLocals, taskLogs, responses, userCall, fsPaths, fileParams>>

PairGetStatus ==
  /\ \E i \in 1..Len(runs) :
       /\ runs[i].run.pc = "handler"
       /\ runs' = PairStore(i, StatusStart(PairView(i), runs[i].caller, runs[i].days, FALSE),
                            <<>>)
  /\ PairUnchanged

PairOnBasicMetrics ==
  /\ \E i \in 1..Len(runs) :
       /\ runs[i].run.pc = "status_step3"
       /\ \E ok \in BOOLEAN, order \in Orderings(MatchedStudies(runs[i].run.sent[1])) :
            runs' = PairStore(i, BasicMetricsResult(PairView(i), taskLogs, runs[i].days,
                                                    ok, order, FALSE),
                              <<[kind |-> "step3", ok |-> ok, order |-> order]>>)
  /\ PairUnchanged

PairOnDateRange ==
  /\ \E i \in 1..Len(runs) :
       /\ runs[i].run.pc = "status_dateRange"
       /\ \E ok \in BOOLEAN :
            runs' = PairStore(i, DateRangeResult(PairView(i), taskLogs, runs[i].days,
                                                 ok, FALSE),
                              <<[kind |-> "dateRange", ok |-> ok, order |-> <<>>]>>)
  /\ PairUnchanged

PairOnSubmissions ==
  /\ \E i \in 1..Len(runs) :
       /\ runs[i].run.pc = "status_submissions"
       /\ \E ok \in BOOLEAN :
            runs' = PairStore(i, SubmissionsResult(PairView(i), taskLogs, runs[i].days,
                                                   ok, FALSE),
                              <<[kind |-> "submissions", ok |-> ok, order |-> <<>>]>>)
  /\ PairUnchanged

InitPair ==
  \E callers \in PairCallers, t \in {1, 2} :
    /\ request = [auth |-> "token", studyAccess |-> callers[1]]
    /\ pc = "pair"
    /\ reqUser = NoUser
    /\ handler = ""
    /\ daysQuery = <<>>
    /\ days = 0
    /\ sent = <<>>
    /\ response = NoResponse
    /\ stats = NoStats
    /\ studyAggregationMap = <<>>
    /\ submissionsMap = <<>>
    /\ loop = 0
    /\ inflight = {}
    /\ failures = {}
    /\ alive = TRUE
    /\ taskLogs = TaskLogTables[t]
    /\ runs = <<PairRequest(callers[1], <<>>), PairRequest(callers[2], <<30>>)>>
    /\ responses = 0
    /\ userCall = NoCall
    /\ fsPaths = <<>>
    /\ fileParams = NoFileParams

NextPair ==
  \/ PairGetStatus
  \/ PairOnBasicMetrics
  \/ PairOnDateRange
  \/ PairOnSubmissions

SpecPair == InitPair /\ [][NextPair]_vars

\* The same handler run alone: the run of a request that is the only one in the
\* handler and receives the store results `results` from position k on.
RECURSIVE RunAlone(_, _, _, _, _)
RunAlone(run, logs, d, results, k) ==
  IF k > Len(results) THEN run
  ELSE LET result == results[k]
           next == IF result.kind = "step3"
                   THEN BasicMetricsResult(run, logs, d, result.ok, result.order, FALSE)
                   ELSE IF result.kind = "dateRange"
                   THEN DateRangeResult(run, logs, d, result.ok, FALSE)
                   ELSE SubmissionsResult(run, logs, d, result.ok, FALSE)
       IN RunAlone(next, logs, d, results, k + 1)

\* ------------------------------------------------------ the files routes
\* routes/api/files.js (and the same two routes of routes/api.js 734-920). The
\* files under config.files.study.path, as <<study folder, ...segments>>.
StudyFiles ==
  {<<"A", "ADMIN", "keys.txt">>,
   <<"A", "SAMPLE_ADMIN", "samples.csv">>,
   <<"A", "VIEWER", "readme.txt">>,
   <<"B", "VIEWER", "readme.txt">>}

\* The role named by the request (the listing also takes none: "").
RoleFolders == {"ADMIN", "STUDY_ADMIN", "SAMPLE_ADMIN", "VIEWER"}

\* The :filepath(*) segments requested.
FilepathInputs ==
  {<<"readme.txt">>, <<"keys.txt">>, <<"ADMIN", "keys.txt">>, <<"..", "samples.csv">>}

\* path.normalize(filepath).replace(/^(\.\.[\/\\])+/, ""): the leading ".."
\* segments are dropped.
RECURSIVE NormalizedPath(_)
NormalizedPath(filepath) ==
  IF filepath # <<>> /\ Head(filepath) = ".." THEN NormalizedPath(Tail(filepath))
  ELSE filepath

\* fs.existsSync(p) && fs.statSync(p).isFile()
IsFile(p) == p \in StudyFiles

\* fs.existsSync(basePath) of the study folder
FolderExists(studyId) == \E f \in StudyFiles : f[1] = studyId

\* role && role !== "ADMIN" && userAccess.role !== "STUDY_ADMIN" &&
\* role !== userAccess.role (the file route always has a role)
RoleRefused(role, userRole) ==
  role # "" /\ role # "ADMIN" /\ userRole # "STUDY_ADMIN" /\ role # userRole

FileRespond(h, status, rows, paths, params) ==
  /\ pc' = "done"
  /\ handler' = h
  /\ response' = [status |-> status, rows |-> rows, report |-> NoReport]
  /\ responses' = responses + 1
  /\ fsPaths' = paths
  /\ fileParams' = params
  /\ UNCHANGED <<request, reqUser, daysQuery, days, sent, statusLocals, taskLogs, runs,
                 userCall>>

\* GET /studies/:studyId/files?role= : the listing of the study folder.
GetStudyFiles ==
  /\ pc = "handler"
  /\ \E studyId \in StudyIds, role \in RoleFolders \cup {""} :
       LET params == [studyId |-> studyId, role |-> role, filepath |-> <<>>]
           userAccess == reqUser.studyAccess[FindAccess(reqUser.studyAccess, studyId)]
       IN IF ~HasStudyAccess(reqUser.studyAccess, studyId, "VIEWER")
          THEN FileRespond("studyFiles", 403, {}, <<>>, params)
          ELSE IF RoleRefused(role, userAccess.role)
               THEN FileRespond("studyFiles", 403, {}, <<>>, params)
          ELSE IF ~FolderExists(studyId)
               THEN FileRespond("studyFiles", 200, {}, <<<<studyId>>>>, params)
          ELSE FileRespond("studyFiles", 200, {f \in StudyFiles : f[1] = studyId},
                           <<<<studyId>>>>, params)

\* GET /studies/:studyId/files/:role/:filepath(*) : one file. req.user is set by
\* the router's middleware, so the `?token=` branch is not taken.
GetStudyFile ==
  /\ pc = "handler"
  /\ \E studyId \in StudyIds, role \in RoleFolders, filepath \in FilepathInputs :
       LET params == [studyId |-> studyId, role |-> role, filepath |-> filepath]
           userAccess == reqUser.studyAccess[FindAccess(reqUser.studyAccess, studyId)]
           direct == <<studyId>> \o NormalizedPath(filepath)
           fallback == <<studyId, role>> \o NormalizedPath(filepath)
       IN IF ~HasStudyAccess(reqUser.studyAccess, studyId, "VIEWER")
          THEN FileRespond("studyFile", 403, {}, <<>>, params)
          ELSE IF RoleRefused(role, userAccess.role)
               THEN FileRespond("studyFile", 403, {}, <<>>, params)
          ELSE IF IsFile(direct)
               THEN FileRespond("studyFile", 200, {direct}, <<direct>>, params)
          ELSE IF IsFile(fallback)
               THEN FileRespond("studyFile", 200, {fallback}, <<direct, fallback>>, params)
          ELSE FileRespond("studyFile", 404, {}, <<direct, fallback>>, params)

NextFiles ==
  \/ ValidateDataAccessToken
  \/ GetStudyFiles
  \/ GetStudyFile

SpecFiles == Init /\ [][NextFiles]_vars

\* ------------------------------------------------- the User methods called
\* req.user.hasStudyAccess and req.user.hasSampleAccess (auth.js 181-187) called
\* on the req.user the middleware built, with any study, role and sample id.
SampleIdInputValues == SampleIdValues \cup {3}

CallHasStudyAccess ==
  /\ pc = "handler"
  /\ \E studyId \in StudyIds, minRole \in DOMAIN ROLES :
       userCall' = [fn |-> "hasStudyAccess", studyId |-> studyId, minRole |-> minRole,
                    sampleId |-> 0,
                    result |-> HasStudyAccess(reqUser.studyAccess, studyId, minRole)]
  /\ UNCHANGED <<request, pc, reqUser, handler, daysQuery, days, sent, response,
                 statusLocals, taskLogs, runs, responses, fsPaths, fileParams>>

CallHasSampleAccess ==
  /\ pc = "handler"
  /\ \E studyId \in StudyIds, sampleId \in SampleIdInputValues :
       userCall' = [fn |-> "hasSampleAccess", studyId |-> studyId, minRole |-> "",
                    sampleId |-> sampleId,
                    result |-> HasSampleAccess(reqUser.studyAccess, studyId, sampleId)]
  /\ UNCHANGED <<request, pc, reqUser, handler, daysQuery, days, sent, response,
                 statusLocals, taskLogs, runs, responses, fsPaths, fileParams>>

NextGate ==
  \/ ValidateDataAccessToken
  \/ CallHasStudyAccess
  \/ CallHasSampleAccess

SpecGate == Init /\ [][NextGate]_vars

\* ================================================================ claims
\* The grants the request's caller holds, as the handlers see them.
CallerGrants == reqUser.studyAccess

GrantSampleSet(g) ==
  IF g.sampleIds.isArray THEN {g.sampleIds.items[j] : j \in 1..Len(g.sampleIds.items)}
  ELSE {}

\* A grant covers a user row (its tasks and logs): the row's study, and under
\* SAMPLE_ADMIN a user of one of the grant's samples.
GrantCoversUser(g, row) ==
  /\ g.studyId = row.study_id
  /\ (g.role = "SAMPLE_ADMIN" => row.samples \cap GrantSampleSet(g) # {})

\* A grant covers a dataset file: the file's study, and under SAMPLE_ADMIN a file
\* of no sample or of one of the grant's samples.
GrantCoversFile(g, row) ==
  /\ g.studyId = row.study_id
  /\ (g.role = "SAMPLE_ADMIN" =>
        row.sample_id = Null \/ row.sample_id \in GrantSampleSet(g))

UserRowHandlers == {"users", "tasklogs", "userTask", "participants", "api.js:users"}
FileRowHandlers == {"datasets", "datasetFile", "api.js:datasets"}

\* The rows the store matched for the handler's access-filtered statement.
MatchedRows ==
  IF sent = <<>> \/ QueryFails(sent[Len(sent)]) THEN {} ELSE QueryRows(sent[Len(sent)])

\* C1: every row a list/read endpoint returns (users, tasklogs, userTask,
\* datasets, participants) or the status aggregate is computed from belongs to a
\* study the caller holds a grant for, and under a SAMPLE_ADMIN grant to one of
\* that grant's samples; the participants listing of the studyId/sampleId of the
\* query string included.
C1_RowsWithinGrants ==
  /\ (response.status = 200 /\ handler \in UserRowHandlers) =>
       \A row \in response.rows :
         \E i \in 1..Len(CallerGrants) : GrantCoversUser(CallerGrants[i], row)
  /\ (response.status = 200 /\ handler \in FileRowHandlers) =>
       \A row \in response.rows :
         \E i \in 1..Len(CallerGrants) : GrantCoversFile(CallerGrants[i], row)
  /\ (handler = "status" /\ pc = "status_step3") =>
       \A row \in MatchedRows :
         \E i \in 1..Len(CallerGrants) : GrantCoversUser(CallerGrants[i], row)

\* C2: for every non-empty grant list, the statement built by the users, tasklogs
\* and userTask endpoints references exactly the placeholders $1..$len(params).
C2_PositionalContract ==
  (handler \in {"users", "tasklogs", "userTask"} /\ sent # <<>> /\ CallerGrants # <<>>) =>
    Referenced(sent[1]) = 1..Len(sent[1].params)

\* Number of SAMPLE_ADMIN grants among the first k grants.
RECURSIVE SampleAdminsAmong(_, _)
SampleAdminsAmong(studyAccess, k) ==
  IF k = 0 THEN 0
  ELSE (IF studyAccess[k].role = "SAMPLE_ADMIN" THEN 1 ELSE 0)
       + SampleAdminsAmong(studyAccess, k - 1)

\* The index of the first study placeholder of a handler's statement.
FirstIndex(h) == IF h = "userTask" THEN 2 ELSE 1

\* C3: with n grants and first placeholder index f, the grant at 0-based position
\* i gets study placeholder f+i; the k-th SAMPLE_ADMIN grant (0-based, counted
\* among SAMPLE_ADMIN grants) gets the one sample-array placeholder f+n+k, and a
\* grant of another role gets none.
C3_PlaceholderAllocation ==
  (handler \in {"users", "tasklogs", "userTask", "api.js:users"} /\ sent # <<>>) =>
    LET n == Len(CallerGrants)
        f == FirstIndex(handler)
    IN \A i \in 1..n :
         /\ sent[1].parts[i].study = Dollar(f + i - 1)
         /\ sent[1].parts[i].sample =
              (IF CallerGrants[i].role = "SAMPLE_ADMIN"
               THEN <<Dollar(f + n + SampleAdminsAmong(CallerGrants, i - 1))>>
               ELSE <<>>)

\* C4: for every non-empty grant list the rows the datasets access predicate
\* matches with its params are exactly the union over the grants g of the rows of
\* study g.studyId, restricted under SAMPLE_ADMIN to the rows whose sample is
\* null or in g's own sample ids.
C4_DatasetsRowsAreUnionOfGrants ==
  (handler \in {"datasets", "api.js:datasets"} /\ sent # <<>> /\ CallerGrants # <<>>) =>
    /\ ~QueryFails(sent[1])
    /\ response.status = 200 =>
         response.rows =
           {row \in DatasetFiles :
              \E i \in 1..Len(CallerGrants) : GrantCoversFile(CallerGrants[i], row)}

RowHasSample(h, row) ==
  IF h \in FileRowHandlers THEN row.sample_id # Null ELSE row.samples # {}

EmptySampleAdmin(g) ==
  g.role = "SAMPLE_ADMIN" /\ g.sampleIds.isArray /\ g.sampleIds.items = <<>>

\* C5: a SAMPLE_ADMIN grant with an empty sample-id collection matches only rows
\* of its study with a null sample: in the datasets listing, the dataset file
\* read and the status aggregate, a matched row that belongs to a sample is
\* covered by a grant on its study that is not such a grant.
C5_EmptySampleAdminMatchesNoSample ==
  LET matched == IF handler = "status" THEN MatchedRows ELSE response.rows
  IN ((handler \in {"datasets", "datasetFile"} /\ response.status = 200)
       \/ (handler = "status" /\ pc = "status_step3")) =>
       \A row \in matched :
         RowHasSample(handler, row) =>
           \E i \in 1..Len(CallerGrants) :
             /\ CallerGrants[i].studyId = row.study_id
             /\ ~EmptySampleAdmin(CallerGrants[i])

\* Grants of the same role and the same sample-collection size as g.
SameShapeGrants(g) ==
  {o \in Grants :
     /\ o.role = g.role
     /\ o.sampleIds.isArray = g.sampleIds.isArray
     /\ Len(o.sampleIds.items) = Len(g.sampleIds.items)}

\* Grant lists with the same sequence of roles and sample-collection sizes.
RECURSIVE SameShapeLists(_)
SameShapeLists(studyAccess) ==
  IF studyAccess = <<>> THEN {<<>>}
  ELSE {<<h>> \o t : h \in SameShapeGrants(Head(studyAccess)),
                     t \in SameShapeLists(Tail(studyAccess))}

\* The text of a statement: everything but the values bound to it.
StmtText(stmt) == [table |-> stmt.table, head |-> stmt.head, parts |-> stmt.parts,
                   tail |-> stmt.tail]

\* The statement handler h compiles for a grant list.
CompiledFor(h, studyAccess) ==
  CASE h = "users" -> UsersStmt(studyAccess)
    [] h = "tasklogs" -> TasklogsStmt(studyAccess)
    [] h = "datasets" -> DatasetsStmt(studyAccess)
    [] h = "status" -> StatusStmt(studyAccess)

\* C6: the access clause text holds no caller-supplied value: every piece of the
\* statement text the users, tasklogs, datasets and status handlers send is a
\* placeholder reference, and the text is the one compiled for every grant list
\* of the same roles and sample-collection sizes, whatever its study and sample
\* ids (the compilations differ in params only).
C6_ClauseTextHoldsNoValue ==
  (handler \in {"users", "tasklogs", "datasets", "status"} /\ sent # <<>>) =>
    /\ \A term \in StmtTerms(sent[1]) : term.isParam
    /\ \A other \in SameShapeLists(CallerGrants) :
         StmtText(CompiledFor(handler, other)) = StmtText(sent[1])

\* Reached: the users handler sent the statement of a two-grant list with a
\* SAMPLE_ADMIN grant of a non-empty sample collection, and a list of the same
\* shape binds other values.
C6_Witness ==
  /\ handler = "users" /\ sent # <<>>
  /\ Len(CallerGrants) = 2
  /\ \E i \in 1..2 : CallerGrants[i].role = "SAMPLE_ADMIN"
                     /\ CallerGrants[i].sampleIds.items # <<>>
  /\ \E other \in SameShapeLists(CallerGrants) :
       CompiledFor("users", other).params # sent[1].params

\* The static role table as sets.
RoleTable(role) ==
  CASE role = "STUDY_ADMIN" -> {"READ_USERS", "READ_LOGS", "READ_TASKS", "READ_DATASETS",
                                "WRITE_USERS", "WRITE_TASKS", "ADMIN"}
    [] role = "SAMPLE_ADMIN" -> {"READ_USERS", "READ_LOGS", "READ_TASKS", "READ_DATASETS",
                                 "WRITE_USERS"}
    [] role = "VIEWER" -> {"READ_DATASETS"}
    [] OTHER -> {}

PermissionCodes ==
  {"READ_USERS", "READ_LOGS", "READ_TASKS", "READ_DATASETS", "WRITE_USERS", "WRITE_TASKS",
   "ADMIN"}

\* C7: for every grant list the permission set is the union over the grants of
\* the static role table, a grant of an unknown role contributing nothing, with
\* no code twice; hasPermission is membership in it. Stated of the user object
\* authenticateUser builds from the grant list of the request's headers.
C7_PermissionsAreUnionOfRoleTable ==
  (request.auth = "headers" /\ pc # "app") =>
    LET perms == reqUser.permissions
        expected == UNION {RoleTable(request.studyAccess[i].role) :
                             i \in 1..Len(request.studyAccess)}
    IN /\ reqUser.defined
       /\ {perms[j] : j \in 1..Len(perms)} = expected
       /\ \A j, k \in 1..Len(perms) : perms[j] = perms[k] => j = k
       /\ \A p \in PermissionCodes :
            HasPermission(reqUser.studyAccess, p) <=> p \in expected

\* A grant the structure check is to refuse.
MalformedGrant(g) ==
  \/ g.role \notin DOMAIN ROLES
  \/ (g.role = "SAMPLE_ADMIN" /\ ~g.sampleIds.isArray)

\* C8: a token whose grant list holds a grant of an unknown role, or a
\* SAMPLE_ADMIN grant without a sampleIds array, is rejected by
\* validateDataAccessToken (403) and no handler runs; every caller a handler
\* sees has known roles only and a sampleIds array on each SAMPLE_ADMIN grant.
C8_MalformedGrantsRejected ==
  /\ (request.auth = "token"
      /\ \E i \in 1..Len(request.studyAccess) : MalformedGrant(request.studyAccess[i])) =>
       /\ handler = "" /\ ~reqUser.defined /\ sent = <<>>
       /\ pc \in {"router", "done"}
       /\ pc = "done" => response.status = 403
  /\ reqUser.defined =>
       \A i \in 1..Len(CallerGrants) : ~MalformedGrant(CallerGrants[i])

\* Reached: the middleware answered a token holding both kinds of malformed grant.
C8_Witness ==
  /\ pc = "done" /\ request.auth = "token" /\ response.status = 403
  /\ \E i \in 1..Len(request.studyAccess) :
       request.studyAccess[i].role \notin DOMAIN ROLES
  /\ \E i \in 1..Len(request.studyAccess) :
       /\ request.studyAccess[i].role = "SAMPLE_ADMIN"
       /\ ~request.studyAccess[i].sampleIds.isArray

\* C9: a status request whose days lies outside [1, 365] (0 and 400 among them) is
\* answered 400 with no report.
C9_PeriodOutOfRangeRejected ==
  (handler = "status" /\ daysQuery # <<>> /\ daysQuery[1] \notin 1..365) =>
    /\ pc = "done"
    /\ response.status = 400
    /\ ~response.report.defined

\* The report of a caller without grants: every overall metric 0, by_study empty.
IsZeroReport(report) ==
  /\ report.defined
  /\ \A metric \in DOMAIN report.overall : report.overall[metric] = 0
  /\ report.by_study = <<>>

\* C10 as stated: a caller holding zero grants gets the all-zero report with an
\* empty by_study whatever the days of the request.
C10_ZeroGrantsZeroReportAnyPeriod ==
  (handler = "status" /\ CallerGrants = <<>>) =>
    /\ response.status = 200
    /\ IsZeroReport(response.report)

\* C10, amended: a caller holding zero grants gets the all-zero report with an
\* empty by_study, and no statement is sent, for every days in [1, 365] and when
\* days is absent; the report carries the period asked for (7 when absent).
C10_ZeroGrantsZeroReportInRange ==
  (handler = "status" /\ CallerGrants = <<>>
   /\ (daysQuery = <<>> \/ daysQuery[1] \in 1..365)) =>
    /\ pc = "done"
    /\ response.status = 200
    /\ IsZeroReport(response.report)
    /\ response.report.period_days = (IF daysQuery = <<>> THEN 7 ELSE daysQuery[1])
    /\ sent = <<>>

\* Reached: the status handler answered a caller without grants asking for one day.
C10_Witness ==
  /\ handler = "status" /\ CallerGrants = <<>> /\ reqUser.defined
  /\ daysQuery = <<1>>
  /\ response.status = 200

\* The status handler sent its report after the aggregate query answered.
ReportSent == handler = "status" /\ response.status = 200 /\ stats.defined

\* A per-study query of the study failed in this request.
StudyFailed(studyId) == \E call \in failures : call.study = studyId

\* The unit the store's submissions of a study call for.
StoreUnit(studyId) == TimeAggregation(DateRangeDays(DateRangeRow(taskLogs, studyId)))

\* C11: when per-study queries fail, the report still holds every study of the
\* aggregate result; a study one of whose two queries failed has time_aggregation
\* day, date_range_days 0 and an empty series, also when its date-range query
\* had answered and chosen another unit; every other study has the unit, range
\* and series of its own submissions; the overall metrics are those of the
\* aggregate result, as in a run without failure.
C11_FailedStudyDefaultsOthersKept ==
  ReportSent =>
    LET byStudy == response.report.by_study
    IN /\ Len(byStudy) = Len(stats.by_study)
       /\ \A i \in 1..Len(byStudy) :
            LET study == byStudy[i]
                studyId == stats.by_study[i].study_id
            IN /\ study.study_id = studyId
               /\ study.metrics = stats.by_study[i].metrics
               /\ IF StudyFailed(studyId)
                  THEN /\ study.time_aggregation = "day"
                       /\ study.date_range_days = 0
                       /\ study.submissions_by_day = <<>>
                  ELSE /\ study.time_aggregation = StoreUnit(studyId)
                       /\ study.date_range_days =
                            DateRangeDays(DateRangeRow(taskLogs, studyId))
                       /\ study.submissions_by_day =
                            SubmissionsSeries(taskLogs, studyId, StoreUnit(studyId))
       /\ response.report.overall = OverallMetrics(stats.by_study)

\* Reached: a report of three studies where exactly one study failed, on its
\* bucketed-submissions query, after its date-range query had chosen a unit
\* other than day.
C11_Witness ==
  /\ ReportSent
  /\ Len(stats.by_study) = 3
  /\ Cardinality(failures) = 1
  /\ \E call \in failures : call.kind = "submissions" /\ StoreUnit(call.study) # "day"

\* C12: a failure of the aggregate query ends the request with 500 and no
\* report; no per-study query was sent for it; the failure is caught, the
\* process stays up and takes the next request.
C12_AggregateFailureIsFatalForRequestOnly ==
  /\ (\E call \in failures : call.kind = "step3") =>
       /\ pc = "done"
       /\ response.status = 500
       /\ ~response.report.defined
       /\ Len(sent) = 1
       /\ inflight = {}
       /\ alive
       /\ ENABLED NextRequest
  /\ pc # "crashed"

\* Reached: the aggregate query of a status request failed.
C12_Witness ==
  /\ handler = "status"
  /\ \E call \in failures : call.kind = "step3"
  /\ response.status = 500

\* The reference planner: day and 0 when the earliest or latest submission is
\* absent; else month above 365 days, week above 60, day up to 60.
PlannerUnit(row) ==
  IF row.earliest_date = SqlNull \/ row.latest_date = SqlNull THEN "day"
  ELSE LET rangeDays == row.latest_date - row.earliest_date
       IN IF rangeDays > 365 THEN "month"
          ELSE IF 60 < rangeDays /\ rangeDays <= 365 THEN "week"
          ELSE "day"

PlannerRangeDays(row) ==
  IF row.earliest_date = SqlNull \/ row.latest_date = SqlNull THEN 0
  ELSE row.latest_date - row.earliest_date

\* C13: the unit and range the status handler stores for a study whose queries
\* did not fail are those of the reference planner on the study's earliest and
\* latest submission.
C13_BucketUnitIsPlannerUnit ==
  handler = "status" =>
    \A i \in 1..Len(studyAggregationMap) :
      LET studyId == studyAggregationMap[i].key
          entry == studyAggregationMap[i].value
          row == DateRangeRow(taskLogs, studyId)
      IN ~StudyFailed(studyId) =>
           /\ entry.timeAggregation = PlannerUnit(row)
           /\ entry.dateRangeDays = PlannerRangeDays(row)

\* Reached: units stored for ranges of 365, 60 and 0 days (week, day, day).
C13_Witness ==
  /\ handler = "status" /\ failures = {}
  /\ Len(studyAggregationMap) = 3
  /\ \E i \in 1..3 : studyAggregationMap[i].value.dateRangeDays = 365
  /\ \E i \in 1..3 : studyAggregationMap[i].value.dateRangeDays = 60

\* C14: every implementation of the status aggregation chooses the same unit for
\* the same date range: the unit status.js (and routes/api.js) stored for a study
\* is the unit the PostgreSQL 9.6 copy chooses for the study's date-range row.
C14_SameUnitInEveryImplementation ==
  handler = "status" =>
    \A i \in 1..Len(studyAggregationMap) :
      LET studyId == studyAggregationMap[i].key
      IN ~StudyFailed(studyId) =>
           studyAggregationMap[i].value.timeAggregation =
             Part001TimeAggregation(DateRangeRow(taskLogs, studyId))

\* The units of the studies of a report, and the number of studies of a unit.
ReportUnits(report) ==
  {report.by_study[i].time_aggregation : i \in 1..Len(report.by_study)}

UnitCount(report, unit) ==
  Cardinality({i \in 1..Len(report.by_study) : report.by_study[i].time_aggregation = unit})

IsModeUnit(report) ==
  IF report.by_study = <<>> THEN report.time_aggregation = "day"
  ELSE /\ report.time_aggregation \in ReportUnits(report)
       /\ \A unit \in ReportUnits(report) :
            UnitCount(report, unit) <= UnitCount(report, report.time_aggregation)

\* C15: in every successful status report the top-level time_aggregation is a
\* unit no other unit outnumbers among the studies' units, and day when the
\* report has no study.
C15_TopLevelUnitIsMode ==
  (handler = "status" /\ response.status = 200) => IsModeUnit(response.report)

\* C16: in every successful status report the study ids of by_study are those of
\* the aggregate result, in its order, whichever per-study queries failed.
C16_ByStudyKeepsAggregateOrder ==
  ReportSent =>
    [i \in 1..Len(response.report.by_study) |-> response.report.by_study[i].study_id]
      = [i \in 1..Len(stats.by_study) |-> stats.by_study[i].study_id]

\* Reached: a report of three studies returned in the order C, A, B, the second
\* of which failed.
C16_Witness ==
  /\ ReportSent
  /\ Len(stats.by_study) = 3
  /\ stats.by_study[1].study_id = "C" /\ stats.by_study[2].study_id = "A"
  /\ StudyFailed("A") /\ ~StudyFailed("C") /\ ~StudyFailed("B")

\* C17: within a status request at most one per-study store query is in flight,
\* whatever the number of studies of the aggregate result.
C17_OnePerStudyQueryInFlight ==
  Cardinality({call \in inflight : call.kind \in {"dateRange", "submissions"}}) <= 1

\* Reached: the third study's query is in flight, the first two studies done.
C17_Witness ==
  /\ handler = "status" /\ Len(stats.by_study) = 3 /\ loop = 3
  /\ \E call \in inflight : call.kind = "dateRange"
  /\ Len(sent) >= 5

\* C18: every status request waiting for the store is eventually answered.
C18_EveryStatusRequestAnswered ==
  [](pc \in {"status_step3", "status_dateRange", "status_submissions"} => <>(pc = "done"))

\* C19: within a status request no store query is issued twice: the statements
\* sent are distinct (one aggregate statement, one date-range and one
\* bucketed-submissions statement a study at most), so a failed query is never
\* sent again.
C19_NoQueryIssuedTwice ==
  handler = "status" =>
    /\ \A i, j \in 1..Len(sent) :
         (sent[i].table = sent[j].table /\ sent[i].params = sent[j].params) => i = j
    /\ \A call \in failures :
         Cardinality({i \in 1..Len(sent) :
                        /\ sent[i].table = (IF call.kind = "step3" THEN "status" ELSE call.kind)
                        /\ (call.kind # "step3" => sent[i].params = <<TextParam(call.study)>>)})
           = 1

\* Reached: a date-range query failed and the request went on to later queries.
C19_Witness ==
  /\ handler = "status"
  /\ \E call \in failures : call.kind = "dateRange"
  /\ \E call \in failures : call.kind = "submissions"
  /\ Len(sent) >= 5

\* C20: for any interleaving of two concurrent status requests of different
\* callers, the statements (text and params), the two maps, the failures and the
\* response of each request are those of the same request run alone against the
\* same store results, its maps holding entries of its own studies only.
C20_RequestStateNotShared ==
  \A i \in 1..Len(runs) :
    LET alone == RunAlone(StatusStart(NewRun, runs[i].caller, runs[i].days, FALSE),
                          taskLogs, runs[i].days, runs[i].results, 1)
    IN runs[i].run.pc # "handler" =>
       /\ runs[i].run = alone
       /\ \A j \in 1..Len(runs[i].run.studyAggregationMap) :
            \E k \in 1..Len(runs[i].run.stats.by_study) :
              runs[i].run.stats.by_study[k].study_id = runs[i].run.studyAggregationMap[j].key

\* Reached: both requests are inside the per-study loop at once; the date-range
\* query of study A failed for the first, which went on to its second study,
\* while the second holds the range it read for study A and awaits A's series.
C20_Witness ==
  /\ Len(runs) = 2
  /\ runs[1].caller # runs[2].caller
  /\ runs[1].run.pc = "status_dateRange" /\ runs[1].run.loop = 2
  /\ \E c \in runs[1].run.failures : c.kind = "dateRange" /\ c.study = "A"
  /\ MapHas(runs[1].run.studyAggregationMap, "A")
  /\ MapGet(runs[1].run.studyAggregationMap, "A").dateRangeDays = 0
  /\ runs[2].run.pc = "status_submissions"
  /\ runs[2].run.failures = {}
  /\ MapHas(runs[2].run.studyAggregationMap, "A")
  /\ MapGet(runs[2].run.studyAggregationMap, "A").dateRangeDays > 0

\* The grants of the caller that name the study of the last User-method call.
CallGrants == {i \in 1..Len(reqUser.studyAccess) :
                 reqUser.studyAccess[i].studyId = userCall.studyId}

C26_AccessIsOrOfGrants ==
  /\ userCall.fn = "hasStudyAccess" =>
       (userCall.result <=>
          \E i \in CallGrants :
            JsGte(RolesGet(reqUser.studyAccess[i].role), RolesGet(userCall.minRole)))
  /\ userCall.fn = "hasSampleAccess" =>
       (userCall.result <=>
          \E i \in CallGrants :
            \/ reqUser.studyAccess[i].role = "STUDY_ADMIN"
            \/ /\ reqUser.studyAccess[i].role = "SAMPLE_ADMIN"
               /\ userCall.sampleId \in GrantSampleSet(reqUser.studyAccess[i]))

\* The permission each guarded list endpoint requires.
RequiredPermission(h) ==
  CASE h \in {"users", "api.js:users"} -> "READ_USERS"
    [] h = "tasklogs" -> "READ_LOGS"
    [] h = "userTask" -> "READ_TASKS"
    [] h \in {"datasets", "api.js:datasets"} -> "READ_DATASETS"

GuardedListHandlers ==
  {"users", "tasklogs", "userTask", "datasets", "api.js:users", "api.js:datasets"}

\* C22: a request to a permission-guarded list endpoint by a caller whose
\* permission set lacks the endpoint's permission ends 403 and sends no statement
\* to the store.
C22_MissingPermissionForbiddenNoStatement ==
  (pc = "done" /\ handler \in GuardedListHandlers
     /\ ~Includes(reqUser.permissions, RequiredPermission(handler))) =>
    /\ response.status = 403
    /\ response.rows = {}
    /\ sent = <<>>

\* Reached: a VIEWER of study A (READ_DATASETS only) asked for the users.
C22_Witness ==
  /\ pc = "done" /\ handler = "users" /\ response.status = 403 /\ sent = <<>>
  /\ reqUser.studyAccess = <<Grant("A", "VIEWER")>>
  /\ reqUser.permissions = <<"READ_DATASETS">>

\* A request carrying the claims in its Authorization header is refused a
\* dataset file: by the middleware, or by the handler's permission check.
HeaderRequestDenied(studyAccess) ==
  \/ ~StudyAccessWellFormed(studyAccess)
  \/ PermissionsThrows(studyAccess)
  \/ ~Includes(Permissions(studyAccess), "READ_DATASETS")

Denied == response.status \in {401, 403}

\* C23: a download request whose valid signed token is in the query string only
\* is refused exactly when the request carrying the same claims in its
\* Authorization header is refused.
C23_QueryTokenAuthorizedAsHeader ==
  /\ (pc = "done" /\ request.auth = "token" /\ handler \in {"", "datasetFile"}) =>
       (Denied <=> HeaderRequestDenied(request.studyAccess))
  /\ (pc = "done" /\ request.auth = "queryToken") =>
       (Denied <=> HeaderRequestDenied(request.studyAccess))

\* C24: a request of a caller whose grant list is empty, whatever list endpoint
\* or status endpoint takes it, ends in a defined outcome (the empty report, a
\* validation error or Forbidden) and no statement is sent to the store for it.
C24_EmptyGrantsEndBeforeStore ==
  (pc = "done" /\ handler # "" /\ reqUser.defined /\ CallerGrants = <<>>) =>
    /\ sent = <<>>
    /\ response.status \in {200, 400, 403}
    /\ response.rows = {}

StatusHandlers == {"status", "api.js:status", "part_001:status"}

Step3Failed == \E c \in failures : c.kind = "step3"

\* C25: a status request with valid days and at least one accessible study ends
\* 500 only if its aggregate query failed; if the query succeeded it ends 200
\* with the report, whatever rows the query matched (by_study empty and
\* time_aggregation day when it matched none) and whatever became of the
\* per-study queries.
C25_AggregateSuccessMeansReport ==
  (handler \in StatusHandlers /\ pc = "done" /\ ~DaysInvalid(days)
     /\ Len(GetAccessibleStudies(CallerGrants, "VIEWER")) > 0) =>
    /\ Step3Failed => response.status = 500
    /\ ~Step3Failed =>
         /\ response.status = 200
         /\ response.report.defined
         /\ Len(response.report.by_study) = Len(stats.by_study)
         /\ stats.by_study = <<>> => response.report.time_aggregation = "day"

\* C27: a list endpoint guarded by permission P returns a row of study S only if
\* the caller holds a grant on S whose role's permission table contains P.
C27_RowsOnlyOfStudiesGrantingPermission ==
  (pc = "done" /\ handler \in GuardedListHandlers /\ response.status = 200) =>
    \A row \in response.rows :
      \E i \in 1..Len(CallerGrants) :
        /\ CallerGrants[i].studyId = row.study_id
        /\ RequiredPermission(handler) \in RoleTable(CallerGrants[i].role)

\* The sum of the bucket counts of a series.
RECURSIVE SeriesTotal(_)
SeriesTotal(series) ==
  IF series = <<>> THEN 0 ELSE Head(series).count + SeriesTotal(Tail(series))

\* The caller's grants on the study are SAMPLE_ADMIN grants, and there is one.
OnlySampleAdminOf(studyId) ==
  /\ \E i \in 1..Len(CallerGrants) : CallerGrants[i].studyId = studyId
  /\ \A i \in 1..Len(CallerGrants) :
       CallerGrants[i].studyId = studyId => CallerGrants[i].role = "SAMPLE_ADMIN"

\* C28: in a status report, the submissions series of a study the caller holds
\* only as SAMPLE_ADMIN is computed over the rows its step-3 metrics are computed
\* over (the submissions of the users in the grant's samples): the bucket counts
\* of the study sum to its total_submissions.
C28_SeriesOverGrantedSamples ==
  ReportSent =>
    \A i \in 1..Len(response.report.by_study) :
      LET study == response.report.by_study[i]
      IN (OnlySampleAdminOf(study.study_id) /\ ~StudyFailed(study.study_id)) =>
           SeriesTotal(study.submissions_by_day) = study.metrics.activity_total_submissions

\* C29: a status request never has two responses written, has none while its
\* handler awaits the store, and has exactly one, a 400, 200 or 500, when the
\* handler is through: after the validation failure, the empty access, the
\* failure of the aggregate query, and any mix of per-study successes and failures.
C29_ExactlyOneResponse ==
  handler \in StatusHandlers =>
    /\ responses <= 1
    /\ pc = "done" => (responses = 1 /\ response.status \in {400, 200, 500})
    /\ pc \in {"status_step3", "status_dateRange", "status_submissions"} =>
         (responses = 0 /\ response = NoResponse)

\* Reached: the report was sent once after one study failed and another did not.
C29_Witness ==
  /\ handler = "status" /\ pc = "done" /\ responses = 1 /\ response.status = 200
  /\ Len(response.report.by_study) >= 2
  /\ \E c \in failures : c.kind \in {"dateRange", "submissions"}
  /\ \E i \in 1..Len(response.report.by_study) :
       ~StudyFailed(response.report.by_study[i].study_id)

\* The role of the caller for the study of the files request.
FilesUserRole ==
  CallerGrants[FindAccess(CallerGrants, fileParams.studyId)].role

\* C30: on the study-file routes a caller whose role for the study is not
\* STUDY_ADMIN and who names the folder of another role, ADMIN included, is
\* refused 403 before any file-system access; every file such a caller is served
\* or listed lies in the folder of the caller's own role.
C30_OtherRoleFolderRefused ==
  (pc = "done" /\ handler \in {"studyFiles", "studyFile"}
     /\ FindAccess(CallerGrants, fileParams.studyId) # 0
     /\ FilesUserRole # "STUDY_ADMIN") =>
    /\ (fileParams.role \notin {"", FilesUserRole}) =>
         (response.status = 403 /\ fsPaths = <<>>)
    /\ \A f \in response.rows : f[2] = FilesUserRole

====
